---- MODULE Spec2Model ----
(***************************************************************************)
(* Network-liveness monitor of src/main.py: the host registry (hosts,      *)
(* estados), the per-group polling threads (monitoreo_grupo_thread), the   *)
(* debounce/alert state machine (monitoreo_host), the alert queue, the     *)
(* control-plane commands (manejar_mensaje) and the add-host / remove-host *)
(* conversations.                                                          *)
(*                                                                         *)
(* Every access to hosts/estados/monitoreo_global in the source happens    *)
(* inside "with data_lock", so each such critical section is one atomic    *)
(* step here; ping() runs outside the lock and is a step of its own.       *)
(* Telegram updates are dispatched one at a time (the Application is built *)
(* without concurrent_updates), so one handler invocation is one step.     *)
(***************************************************************************)
EXTENDS Integers, Sequences, FiniteSets, Bags, TLC

\* ------------------------------------------------------------ constants
MAX_FALLOS == 5
INTERVALO_ALERTA_PERSISTENTE == 600

\* ------------------------------------------------------------ bounds
\* Loop threads (and crashed loops with probes still running) at a time.
MaxHilos == 2
\* Alerts waiting in alert_queue before new probes are held back.
MaxCola == 1
\* Failure counter above which no further failed ping is drawn.
FallosTope == 6
\* The clock starts at RelojInicial and advances RelojPaso at a time up to
\* RelojInicial + RelojPasos * RelojPaso.
RelojInicial == 1000
RelojPaso == 600
RelojPasos == 1
\* Runs of guardar_hosts, that is add-host and remove-host mutations.
MaxGuardados == 2

\* The longest texts handed to enviar_mensaje span MaxTrozos full chunks,
\* give or take Margen characters.
MaxTrozos == 3
Margen == 8

\* Unfinished enviar_mensaje tasks below which procesar_alertas takes the
\* next message.
MaxTareas == 1

\* ------------------------------------------------------------ domains
\* The configured groups (two of the four of src/main.py:57-62).
Grupos == {"cctv", "servers"}

\* Texts a user may send where a group is expected: the two buttons of
\* teclado_grupos for these groups (written without their emoji prefix,
\* "CCTV" for the camera button and "Servidores" for the server button)
\* the typed word "servers" and the typed words "Menu principal".
TextosGrupo == {"CCTV", "Servidores", "servers", "Menu principal"}

\* texto.lower().replace(<emoji prefixes>, "").strip()
normalizar_grupo(texto) ==
    CASE texto = "CCTV" -> "cctv"
      [] texto = "Servidores" -> "servidores"
      [] texto = "Menu principal" -> "menu principal"
      [] OTHER -> texto

\* Texts a user may type as an address.  "2001:DB8::1" and "2001:db8::1"
\* spell the same IPv6 address; "not-an-ip" is no IP literal.
TextosIP == {"10.0.0.1", "2001:db8::1", "2001:DB8::1", "not-an-ip"}

\* A parser that takes every text for an IP literal.
ip_address_todo(ip) == TRUE

\* ipaddress.ip_address(ip): raises ValueError unless ip is an IP literal.
ip_address_valida(ip) == ip \in {"10.0.0.1", "2001:db8::1", "2001:DB8::1"}

\* str(ipaddress.ip_address(ip)): the canonical (lower-case, compressed)
\* spelling of a valid literal.
str_ip_address(ip) == IF ip = "2001:DB8::1" THEN "2001:db8::1" ELSE ip

Nombres == {"Camara1", "Srv1"}

NADA == "None"

\* ------------------------------------------------------------ dicts
\* A Python dict that is iterated (hosts[grupo]) is a sequence of
\* <<key, value>> pairs in insertion order.
Claves(d) == {d[i][1] : i \in DOMAIN d}

Valor(d, k) == d[CHOOSE i \in DOMAIN d : d[i][1] = k][2]

\* An assignment that keeps the value of a key the dict already has.
PonerSinPisar(d, k, v) == IF k \in Claves(d) THEN d ELSE Append(d, <<k, v>>)

\* d[k] = v
Poner(d, k, v) ==
    IF k \in Claves(d)
    THEN [i \in DOMAIN d |-> IF d[i][1] = k THEN <<k, v>> ELSE d[i]]
    ELSE Append(d, <<k, v>>)

\* del d[k]
Quitar(d, k) == SelectSeq(d, LAMBDA e : e[1] # k)

\* A dict that is only indexed (estado_hosts) is a function.
SinClave(f, k) == [x \in DOMAIN f \ {k} |-> f[x]]

ConClave(f, k, v) == [x \in DOMAIN f \cup {k} |-> IF x = k THEN v ELSE f[x]]

\* ------------------------------------------------------------ state
VARIABLES
    hosts,             \* grupo -> dict ip -> nombre
    estados,           \* grupo -> [activo, estado_hosts: ip -> host state]
    monitoreo_global,  \* the process-wide monitoring flag
    alert_queue,       \* queue.Queue of alert messages
    sesiones_activas,  \* chat_id -> session
    hilos,             \* the bag of monitoreo_grupo_thread threads
    reloj,             \* time.time()
    conv,              \* chat_id -> state of each ConversationHandler
    user_data,         \* chat_id -> context.user_data
    disco,             \* the persistence file and its backup: << >> when the
                       \* file does not exist, << content >> when it does
    respuesta,         \* the reply sent by the step just taken, and to which
                       \* chat (NADA when the step handled no update)
    guardados,         \* how many times guardar_hosts has run
    data_lock,         \* the coroutine that holds data_lock while it is
                       \* suspended in an await (NADA: nobody; a critical
                       \* section without an await is part of one step)
    pendiente,         \* the update handler suspended in that await
    tareas,            \* the bag of enviar_mensaje tasks that procesar_alertas
                       \* created and that have not finished
    consumidor         \* procesar_alertas: free, or blocked in the acquire
                       \* of data_lock with the message it took

vars == <<hosts, estados, monitoreo_global, alert_queue, sesiones_activas,
          hilos, reloj, conv, user_data, disco, respuesta, guardados,
          data_lock, pendiente, tareas, consumidor>>

\* The baked-in sets of hosts.py (not part of the sources), which is also
\* the registry once main has run cargar_hosts without a persistence file.
\* Here one camera with an IPv6 address, no server.
hosts_iniciales ==
    [g \in Grupos |-> IF g = "cctv" THEN << <<"2001:db8::1", "Camara1">> >> ELSE << >>]

\* The state every host starts in (src/main.py:67, 158, 553).
EstadoNuevo == [activo |-> TRUE, fallos |-> 0, ultima_alerta |-> 0]


Chats == {"chat1", "chat2"}

\* credenciales.json (read by cargar_credenciales; its content is
\* deployment data): identificador -> rol.
Credenciales == [clave_admin |-> "admin", clave_user |-> "user"]

Identificadores == {"clave_admin", "clave_user", "otra"}

ConvInicial == [login |-> "END", agregar |-> "END", eliminar |-> "END"]

UserDataInicial == [grupo |-> NADA, ip |-> NADA, nombre |-> NADA]

\* No update handler is suspended.
SinPendiente == [nombre |-> NADA, chat |-> NADA, por_cerrar |-> << >>, cerradas |-> 0]

\* procesar_alertas is not inside "with data_lock".
ConsumidorLibre == [pc |-> "libre", mensaje |-> << >>]

\* The state after construction and cargar_hosts, with the sessions ses
\* open.
InitCon(ses) ==
    /\ hosts = hosts_iniciales
    /\ estados = [g \in Grupos |->
                    [activo |-> TRUE,
                     estado_hosts |-> [ip \in Claves(hosts_iniciales[g]) |-> EstadoNuevo]]]
    /\ monitoreo_global = FALSE
    /\ alert_queue = << >>
    /\ sesiones_activas = ses
    /\ hilos = EmptyBag
    /\ reloj = RelojInicial
    /\ conv = [c \in Chats |-> ConvInicial]
    /\ user_data = [c \in Chats |-> UserDataInicial]
    /\ disco = [archivo |-> << >>, respaldo |-> << >>, truncados |-> {}]
    /\ respuesta = [chat |-> NADA, texto |-> NADA]
    /\ guardados = 0
    /\ data_lock = NADA
    /\ pendiente = SinPendiente
    /\ tareas = EmptyBag
    /\ consumidor = ConsumidorLibre

Init == InitCon(<< >>)

\* The event loop can run an update handler: the application handles one
\* update at a time, so none is suspended, and the loop's thread is not
\* blocked.
BucleLibre == pendiente = SinPendiente /\ consumidor = ConsumidorLibre

\* A step that is no update handler sends no reply.
SinRespuesta == respuesta' = [chat |-> NADA, texto |-> NADA]

\* ------------------------------------------------------------ prober
\* What the probe attempt of ping(ip) may do once the address is parsed:
\* the command exits with status 0 or with another status, subprocess.call
\* raises a SubprocessError, or it raises OSError because the command ("ping"
\* or, for an IPv6 address, "ping6") cannot be executed.
ResultadosPing == {"exit_0", "exit_1", "SubprocessError", "OSError"}

\* ping(ip): what it returns and the exception that leaves it. A text that
\* is no IP literal raises ValueError, which is caught as SubprocessError
\* is; OSError is not in the except clause.
ping(ip, resultado) ==
    IF ~ip_address_valida(ip)
    THEN [retorno |-> FALSE, excepcion |-> "ninguna"]
    ELSE CASE resultado = "exit_0" -> [retorno |-> TRUE, excepcion |-> "ninguna"]
           [] resultado = "OSError" -> [retorno |-> FALSE, excepcion |-> "OSError"]
           [] OTHER -> [retorno |-> FALSE, excepcion |-> "ninguna"]

\* ------------------------------------------------------------ debounce
\* The alert texts of monitoreo_host, by kind.
Alerta(tipo, grupo, ip, nombre) ==
    [tipo |-> tipo, grupo |-> grupo, ip |-> ip, nombre |-> nombre]

\* A threshold one failure late, to tell ">=" from ">".
UmbralEstricto(fallos) == fallos > MAX_FALLOS

\* A threshold one failure early.
UmbralTemprano(fallos) == fallos + 1 >= MAX_FALLOS

\* fallos >= MAX_FALLOS
UmbralAlcanzado(fallos) == fallos >= MAX_FALLOS

\* A cooldown that is over one second late, to tell ">=" from ">".
EnfriamientoEstricto(current_time, ultima_alerta) ==
    current_time - ultima_alerta > INTERVALO_ALERTA_PERSISTENTE

\* current_time - ultima_alerta >= INTERVALO_ALERTA_PERSISTENTE
EnfriamientoVencido(current_time, ultima_alerta) ==
    current_time - ultima_alerta >= INTERVALO_ALERTA_PERSISTENTE

\* A failure branch whose first alert does not record its time.
RamaFalloSinMarca(e, current_time, ip, nombre, grupo) ==
    LET fallos == e.fallos + 1 IN
    IF UmbralAlcanzado(fallos)
    THEN IF e.activo
         THEN [estado |-> [activo |-> FALSE, fallos |-> fallos,
                           ultima_alerta |-> e.ultima_alerta],
               alertas |-> << Alerta("ALERTA", grupo, ip, nombre) >>]
         ELSE IF EnfriamientoVencido(current_time, e.ultima_alerta)
              THEN [estado |-> [activo |-> e.activo, fallos |-> fallos,
                                ultima_alerta |-> current_time],
                    alertas |-> << Alerta("ALERTA PERSISTENTE", grupo, ip, nombre) >>]
              ELSE [estado |-> [e EXCEPT !.fallos = fallos], alertas |-> << >>]
    ELSE [estado |-> [e EXCEPT !.fallos = fallos], alertas |-> << >>]

\* The failure branch of monitoreo_host on host state e: the new host state
\* and the alerts put on alert_queue.
RamaFallo(e, current_time, ip, nombre, grupo) ==
    LET fallos == e.fallos + 1 IN
    IF UmbralAlcanzado(fallos)
    THEN IF e.activo
         THEN [estado |-> [activo |-> FALSE, fallos |-> fallos,
                           ultima_alerta |-> current_time],
               alertas |-> << Alerta("ALERTA", grupo, ip, nombre) >>]
         ELSE IF EnfriamientoVencido(current_time, e.ultima_alerta)
              THEN [estado |-> [activo |-> e.activo, fallos |-> fallos,
                                ultima_alerta |-> current_time],
                    alertas |-> << Alerta("ALERTA PERSISTENTE", grupo, ip, nombre) >>]
              ELSE [estado |-> [e EXCEPT !.fallos = fallos], alertas |-> << >>]
    ELSE [estado |-> [e EXCEPT !.fallos = fallos], alertas |-> << >>]

\* A success branch that keeps the failure counter of a host that is alive.
RamaExitoSinReinicio(e, current_time, ip, nombre, grupo) ==
    IF ~e.activo
    THEN [estado |-> [activo |-> TRUE, fallos |-> 0, ultima_alerta |-> current_time],
          alertas |-> << Alerta("RECUPERADO", grupo, ip, nombre) >>]
    ELSE [estado |-> e, alertas |-> << >>]

\* The success branch of monitoreo_host.
RamaExito(e, current_time, ip, nombre, grupo) ==
    IF ~e.activo
    THEN [estado |-> [activo |-> TRUE, fallos |-> 0, ultima_alerta |-> current_time],
          alertas |-> << Alerta("RECUPERADO", grupo, ip, nombre) >>]
    ELSE [estado |-> [e EXCEPT !.fallos = 0], alertas |-> << >>]

\* The critical section of monitoreo_host for a host whose state is e.
monitoreo_host(e, estado_actual, current_time, ip, nombre, grupo) ==
    IF ~estado_actual
    THEN RamaFallo(e, current_time, ip, nombre, grupo)
    ELSE RamaExito(e, current_time, ip, nombre, grupo)

\* ------------------------------------------------------------ group loops
\* A future of executor.submit(monitoreo_host, ...): "pendiente" until the
\* ping returned, "ping" once estado_actual and current_time are taken,
\* "hecho" when the critical section finished, "error" when it raised.
FuturoPendiente == [fase |-> "pendiente", estado_actual |-> FALSE, current_time |-> 0]

FuturoFin(fase) == [fase |-> fase, estado_actual |-> FALSE, current_time |-> 0]

\* threading.Thread(target=monitoreo_grupo_thread, args=(grupo, executor)).start()
NuevoHilo(g) == [grupo |-> g, pc |-> "revisar", hosts_copy |-> << >>, futuros |-> << >>]

\* hilos is the bag of the threads that run monitoreo_grupo_thread: threads
\* have no identity beyond their state.  A thread that ended leaves the bag;
\* one that died on an exception stays (pc "muerto") while probes it
\* submitted are still in the executor.
Vivo(t) == t.pc \in {"revisar", "esperar"}

\* The number of threads of monitoreo_grupo_thread(g, ...) that have not ended.
HilosVivos(g) ==
    BagCardinality([t \in {x \in BagToSet(hilos) : x.grupo = g /\ Vivo(x)} |-> hilos[t]])

SinFuturosEnCurso(t) ==
    \A ip \in DOMAIN t.futuros : t.futuros[ip].fase \in {"hecho", "error"}

\* The bag with thread t now in state t2.
Cambiar(t, t2) ==
    IF t2.pc \in {"fin", "muerto"} /\ SinFuturosEnCurso(t2)
    THEN hilos (-) SetToBag({t})
    ELSE (hilos (-) SetToBag({t})) (+) SetToBag({t2})

\* The bag with the threads of the sequence nuevos (of different groups)
\* started.
Lanzar(nuevos) == hilos (+) SetToBag({nuevos[i] : i \in DOMAIN nuevos})

\* A loop that probes the baked-in hosts of its group instead of a copy of
\* the group's host map.
RevisarSinCopia(t) ==
    /\ data_lock = NADA
    /\ t.pc = "revisar"
    /\ IF ~estados[t.grupo].activo \/ ~monitoreo_global
       THEN hilos' = Cambiar(t, [t EXCEPT !.pc = "fin"])
       ELSE hilos' = Cambiar(t, [t EXCEPT
                        !.pc = "esperar",
                        !.hosts_copy = hosts_iniciales[t.grupo],
                        !.futuros = [ip \in Claves(hosts_iniciales[t.grupo]) |-> FuturoPendiente]])
    /\ SinRespuesta
    /\ UNCHANGED <<hosts, estados, monitoreo_global, alert_queue, sesiones_activas,
                   reloj, conv, user_data, disco, guardados,
                   data_lock, pendiente, tareas, consumidor>>

\* Top of the while loop (also the end of time.sleep): under data_lock,
\* leave when the group or the global flag is off, else copy the group's
\* hosts; then submit one monitoreo_host per host of the copy.
Revisar(t) ==
    /\ data_lock = NADA
    /\ t.pc = "revisar"
    /\ IF ~estados[t.grupo].activo \/ ~monitoreo_global
       THEN hilos' = Cambiar(t, [t EXCEPT !.pc = "fin"])
       ELSE hilos' = Cambiar(t, [t EXCEPT
                        !.pc = "esperar",
                        !.hosts_copy = hosts[t.grupo],
                        !.futuros = [ip \in Claves(hosts[t.grupo]) |-> FuturoPendiente]])
    /\ SinRespuesta
    /\ UNCHANGED <<hosts, estados, monitoreo_global, alert_queue, sesiones_activas,
                   reloj, conv, user_data, disco, guardados,
                   data_lock, pendiente, tareas, consumidor>>

\* monitoreo_host before the lock: estado_actual = ping(ip) and
\* current_time = time.time(). An exception that leaves ping leaves
\* monitoreo_host too and is held by the future.
Ping(t, ip, resultado) ==
    /\ ip \in DOMAIN t.futuros
    /\ t.futuros[ip].fase = "pendiente"
    /\ Len(alert_queue) < MaxCola
    /\ LET r == ping(ip, resultado) IN
       /\ ~r.retorno /\ r.excepcion = "ninguna" /\ ip \in DOMAIN estados[t.grupo].estado_hosts
              => estados[t.grupo].estado_hosts[ip].fallos < FallosTope
       /\ hilos' = Cambiar(t, [t EXCEPT !.futuros[ip] =
                       IF r.excepcion = "ninguna"
                       THEN [fase |-> "ping", estado_actual |-> r.retorno,
                             current_time |-> reloj]
                       ELSE FuturoFin("error")])
    /\ SinRespuesta
    /\ UNCHANGED <<hosts, estados, monitoreo_global, alert_queue, sesiones_activas,
                   reloj, conv, user_data, disco, guardados,
                   data_lock, pendiente, tareas, consumidor>>

\* monitoreo_host under data_lock: estados[grupo]["estado_hosts"][ip] raises
\* KeyError when the host is no longer registered; otherwise the debounce
\* state machine runs on the host's state.
Registrar(t, ip) ==
    /\ data_lock = NADA
    /\ ip \in DOMAIN t.futuros
    /\ t.futuros[ip].fase = "ping"
    /\ LET g == t.grupo
           f == t.futuros[ip]
       IN IF ip \notin DOMAIN estados[g].estado_hosts
          THEN /\ hilos' = Cambiar(t, [t EXCEPT !.futuros[ip] = FuturoFin("error")])
               /\ UNCHANGED <<estados, alert_queue>>
          ELSE LET r == monitoreo_host(estados[g].estado_hosts[ip], f.estado_actual,
                                       f.current_time, ip, Valor(t.hosts_copy, ip), g)
               IN /\ estados' = [estados EXCEPT ![g].estado_hosts[ip] = r.estado]
                  /\ alert_queue' = alert_queue \o r.alertas
                  /\ hilos' = Cambiar(t, [t EXCEPT !.futuros[ip] = FuturoFin("hecho")])
    /\ SinRespuesta
    /\ UNCHANGED <<hosts, monitoreo_global, sesiones_activas, reloj, conv,
                   user_data, disco, guardados,
                   data_lock, pendiente, tareas, consumidor>>

\* A loop that sleeps as soon as no probe is waiting to start.
DormirPronto(t) ==
    /\ t.pc = "esperar"
    /\ \A ip \in DOMAIN t.futuros : t.futuros[ip].fase \in {"hecho", "ping"}
    /\ hilos' = Cambiar(t, [t EXCEPT !.pc = "revisar", !.hosts_copy = << >>,
                                     !.futuros = << >>])
    /\ SinRespuesta
    /\ UNCHANGED <<hosts, estados, monitoreo_global, alert_queue, sesiones_activas,
                   reloj, conv, user_data, disco, guardados,
                   data_lock, pendiente, tareas, consumidor>>

\* "for future in futures: future.result()" reached the end: every future
\* finished without raising; the thread sleeps INTERVALOS_PING[grupo].
Dormir(t) ==
    /\ t.pc = "esperar"
    /\ \A ip \in DOMAIN t.futuros : t.futuros[ip].fase = "hecho"
    /\ hilos' = Cambiar(t, [t EXCEPT !.pc = "revisar", !.hosts_copy = << >>,
                                     !.futuros = << >>])
    /\ SinRespuesta
    /\ UNCHANGED <<hosts, estados, monitoreo_global, alert_queue, sesiones_activas,
                   reloj, conv, user_data, disco, guardados,
                   data_lock, pendiente, tareas, consumidor>>

\* "for future in futures: future.result()" reached a future that raised:
\* every future before it (in hosts_copy order) finished, this one holds
\* the exception, which leaves monitoreo_grupo_thread uncaught and ends the
\* thread.  The futures still queued in the executor keep running.
Morir(t) ==
    /\ t.pc = "esperar"
    /\ \E i \in DOMAIN t.hosts_copy :
          /\ t.futuros[t.hosts_copy[i][1]].fase = "error"
          /\ \A j \in 1..(i - 1) : t.futuros[t.hosts_copy[j][1]].fase = "hecho"
    /\ hilos' = Cambiar(t, [t EXCEPT !.pc = "muerto"])
    /\ SinRespuesta
    /\ UNCHANGED <<hosts, estados, monitoreo_global, alert_queue, sesiones_activas,
                   reloj, conv, user_data, disco, guardados,
                   data_lock, pendiente, tareas, consumidor>>

\* Time passes.
Tic ==
    /\ reloj < RelojInicial + RelojPasos * RelojPaso
    /\ reloj' = reloj + RelojPaso
    /\ SinRespuesta
    /\ UNCHANGED <<hosts, estados, monitoreo_global, alert_queue, sesiones_activas,
                   hilos, conv, user_data, disco, guardados,
                   data_lock, pendiente, tareas, consumidor>>

\* ------------------------------------------------------------ alerts
\* The enviar_mensaje tasks of one message: one per session.
TareasDe(mensaje) ==
    SetToBag({[chat_id |-> c, mensaje |-> mensaje] : c \in DOMAIN sesiones_activas})

\* One iteration of procesar_alertas that finds a message: it is taken off
\* the queue and, under data_lock, one enviar_mensaje task per session is
\* created.  data_lock is a threading.Lock: when a suspended handler holds
\* it, the acquire blocks the thread of the event loop.
procesar_alertas ==
    /\ consumidor = ConsumidorLibre
    /\ alert_queue # << >>
    /\ alert_queue' = Tail(alert_queue)
    /\ IF data_lock = NADA
       THEN /\ BagCardinality(tareas) < MaxTareas
            /\ tareas' = tareas (+) TareasDe(Head(alert_queue))
            /\ UNCHANGED consumidor
       ELSE /\ consumidor' = [pc |-> "bloqueado", mensaje |-> << Head(alert_queue) >>]
            /\ UNCHANGED tareas
    /\ SinRespuesta
    /\ UNCHANGED <<hosts, estados, monitoreo_global, sesiones_activas, hilos,
                   reloj, conv, user_data, disco, guardados, data_lock, pendiente>>

\* The longest text enviar_mensaje hands to send_message in one piece.
max_length == 4096

\* A text of n characters; the character at position k is k itself, so that
\* a slice shows which positions of the text it holds.
Texto(n) == [tipo |-> "TEXTO", letras |-> [k \in 1..n |-> k]]

\* len(texto) > max_length.  The alert texts of monitoreo_host are a fixed
\* template around a group, an address and a name of at most 50 characters,
\* and stay under the limit.
EsLargo(texto) == texto.tipo = "TEXTO" /\ Len(texto.letras) > max_length

\* A variant of the slice that keeps one character of the next chunk.
Rebanada_solapada(letras, i, j) ==
    SubSeq(letras, i + 1, IF j + 1 < Len(letras) THEN j + 1 ELSE Len(letras))

\* texto[i:j]: the characters at the 0-based positions i .. j-1, clamped
\* to the end of the text.
Rebanada(letras, i, j) ==
    SubSeq(letras, i + 1, IF j < Len(letras) THEN j ELSE Len(letras))

\* range(0, n, paso) as a sequence.
Rango(n, paso) == [k \in 1..((n + paso - 1) \div paso) |-> (k - 1) * paso]

\* The texts enviar_mensaje hands to send_message, in send order.
Trozos(texto) ==
    IF EsLargo(texto)
    THEN LET desde == Rango(Len(texto.letras), max_length)
         IN  [k \in DOMAIN desde |->
                 [tipo |-> "TEXTO",
                  letras |-> Rebanada(texto.letras, desde[k], desde[k] + max_length)]]
    ELSE << texto >>

\* How many sends of one task succeed before send_message raises.
Envios == 0..(MaxTrozos + 1)

\* enviar_mensaje running as a task: `enviados` of its sends succeed before
\* send_message raises (all of them when it never does); the exception is
\* caught and logged.
enviar_mensaje(tarea, enviados) ==
    /\ consumidor = ConsumidorLibre
    /\ tarea \in BagToSet(tareas)
    /\ enviados \in 0..Len(Trozos(tarea.mensaje))
    /\ tareas' = tareas (-) SetToBag({tarea})
    /\ respuesta' = [chat |-> tarea.chat_id, texto |-> "mensaje",
                     trozos |-> SubSeq(Trozos(tarea.mensaje), 1, enviados)]
    /\ UNCHANGED <<hosts, estados, monitoreo_global, alert_queue, sesiones_activas,
                   hilos, reloj, conv, user_data, disco, guardados, data_lock,
                   pendiente, consumidor>>

\* ------------------------------------------------------------ dispatch
\* Which handler a text message of chat c reaches: the handlers are tried
\* in registration order (login, add-host, remove-host, manejar_mensaje) and
\* a ConversationHandler that is in a state takes every text.
EnLogin(c) == conv[c].login # "END"

EnAgregar(c) == ~EnLogin(c) /\ conv[c].agregar # "END"

EnEliminar(c) == ~EnLogin(c) /\ conv[c].agregar = "END" /\ conv[c].eliminar # "END"

EnMenu(c) == conv[c] = ConvInicial

Responder(c, texto) == respuesta' = [chat |-> c, texto |-> texto]

\* ------------------------------------------------------------ login
\* /start
start(c) ==
    /\ BucleLibre
    /\ conv[c].login = "END"
    /\ IF c \in DOMAIN sesiones_activas
       THEN /\ Responder(c, "Ya estas autenticado")
            /\ UNCHANGED conv
       ELSE /\ Responder(c, "Ingresa tu identificador")
            /\ conv' = [conv EXCEPT ![c].login = "LOGIN"]
    /\ UNCHANGED <<hosts, estados, monitoreo_global, alert_queue, sesiones_activas,
                   hilos, reloj, user_data, disco, guardados,
                   data_lock, pendiente, tareas, consumidor>>

\* The session record; its "timestamp" field is left out.
Sesion(identificador) ==
    [identificador |-> identificador, rol |-> Credenciales[identificador]]

verificar_identificador(c, identificador) ==
    /\ BucleLibre
    /\ conv[c].login = "LOGIN"
    /\ IF identificador \in DOMAIN Credenciales
       THEN /\ sesiones_activas' = ConClave(sesiones_activas, c, Sesion(identificador))
            /\ Responder(c, "Autenticacion exitosa")
            /\ conv' = [conv EXCEPT ![c].login = "END"]
       ELSE /\ Responder(c, "Identificador incorrecto")
            /\ UNCHANGED <<sesiones_activas, conv>>
    /\ UNCHANGED <<hosts, estados, monitoreo_global, alert_queue, hilos, reloj,
                   user_data, disco, guardados,
                   data_lock, pendiente, tareas, consumidor>>

\* ------------------------------------------------------------ commands
\* manejar_mensaje from a chat without a session.
SinSesion(c) ==
    /\ BucleLibre
    /\ EnMenu(c)
    /\ c \notin DOMAIN sesiones_activas
    /\ Responder(c, "Usa /start para autenticarte")
    /\ UNCHANGED <<hosts, estados, monitoreo_global, alert_queue, sesiones_activas,
                   hilos, reloj, conv, user_data, disco, guardados,
                   data_lock, pendiente, tareas, consumidor>>

\* "for grupo in estados": the groups in dict order.
GruposEnOrden == << "cctv", "servers" >>

\* The threads "Iniciar todo" starts: one per group whose activo is set.
HilosDeInicio == 
    LET activos == SelectSeq(GruposEnOrden, LAMBDA g : estados[g].activo)
    IN [i \in DOMAIN activos |-> NuevoHilo(activos[i])]

\* "Iniciar todo"
IniciarTodo(c) ==
    /\ BucleLibre
    /\ EnMenu(c)
    /\ c \in DOMAIN sesiones_activas
    /\ BagCardinality(hilos) + Len(HilosDeInicio) <= MaxHilos
    /\ monitoreo_global' = TRUE
    /\ hilos' = Lanzar(HilosDeInicio)
    /\ Responder(c, "Monitoreo iniciado")
    /\ UNCHANGED <<hosts, estados, alert_queue, sesiones_activas, reloj, conv,
                   user_data, disco, guardados,
                   data_lock, pendiente, tareas, consumidor>>

\* "Detener todo"
DetenerTodo(c) ==
    /\ BucleLibre
    /\ EnMenu(c)
    /\ c \in DOMAIN sesiones_activas
    /\ monitoreo_global' = FALSE
    /\ Responder(c, "Monitoreo global DETENIDO")
    /\ UNCHANGED <<hosts, estados, alert_queue, sesiones_activas, hilos, reloj,
                   conv, user_data, disco, guardados,
                   data_lock, pendiente, tareas, consumidor>>

\* The threads a group toggle starts: one when the group is now on and the
\* global flag is set.
HilosDeToggle(grupo, activo) ==
    IF activo /\ monitoreo_global THEN << NuevoHilo(grupo) >> ELSE << >>

\* A group toggle that also gives every host of the group a fresh state.
ToggleGrupoReinicia(c, boton) ==
    /\ BucleLibre
    /\ EnMenu(c)
    /\ c \in DOMAIN sesiones_activas
    /\ LET grupo == normalizar_grupo(boton) IN
       IF grupo \notin DOMAIN estados
       THEN /\ Responder(c, "KeyError")
            /\ UNCHANGED <<estados, hilos>>
       ELSE LET activo == ~estados[grupo].activo IN
            /\ BagCardinality(hilos) + Len(HilosDeToggle(grupo, activo)) <= MaxHilos
            /\ estados' = [estados EXCEPT ![grupo].activo = activo,
                                        ![grupo].estado_hosts = [ip \in DOMAIN @ |-> EstadoNuevo]]
            /\ hilos' = Lanzar(HilosDeToggle(grupo, activo))
            /\ Responder(c, IF activo THEN "ACTIVADO" ELSE "DESACTIVADO")
    /\ UNCHANGED <<hosts, monitoreo_global, alert_queue, sesiones_activas, reloj,
                   conv, user_data, disco, guardados,
                   data_lock, pendiente, tareas, consumidor>>

\* A group button ("CCTV", "Servidores"): estados[grupo] raises KeyError for
\* a normalised text that is no group and the handler ends there.
ToggleGrupo(c, boton) ==
    /\ BucleLibre
    /\ EnMenu(c)
    /\ c \in DOMAIN sesiones_activas
    /\ LET grupo == normalizar_grupo(boton) IN
       IF grupo \notin DOMAIN estados
       THEN /\ Responder(c, "KeyError")
            /\ UNCHANGED <<estados, hilos>>
       ELSE LET activo == ~estados[grupo].activo IN
            /\ BagCardinality(hilos) + Len(HilosDeToggle(grupo, activo)) <= MaxHilos
            /\ estados' = [estados EXCEPT ![grupo].activo = activo]
            /\ hilos' = Lanzar(HilosDeToggle(grupo, activo))
            /\ Responder(c, IF activo THEN "ACTIVADO" ELSE "DESACTIVADO")
    /\ UNCHANGED <<hosts, monitoreo_global, alert_queue, sesiones_activas, reloj,
                   conv, user_data, disco, guardados,
                   data_lock, pendiente, tareas, consumidor>>

\* "Cerrar sesion"
CerrarSesion(c) ==
    /\ BucleLibre
    /\ EnMenu(c)
    /\ c \in DOMAIN sesiones_activas
    /\ sesiones_activas' = SinClave(sesiones_activas, c)
    /\ Responder(c, "Sesion cerrada")
    /\ UNCHANGED <<hosts, estados, monitoreo_global, alert_queue, hilos, reloj,
                   conv, user_data, disco, guardados,
                   data_lock, pendiente, tareas, consumidor>>

\* The elements of the set S in some order.
RECURSIVE EnSecuencia(_)
EnSecuencia(S) ==
    IF S = {} THEN << >>
    ELSE LET x == CHOOSE y \in S : TRUE IN << x >> \o EnSecuencia(S \ {x})

\* [sid for sid, sesion in sesiones_activas.items() if rol != "admin"]
SesionesNoAdmin ==
    EnSecuencia({sid \in DOMAIN sesiones_activas : sesiones_activas[sid].rol # "admin"})

\* "Cerrar sesiones no admin": the button does nothing for a user who is no
\* administrator.  For an administrator the sessions are deleted one by one
\* inside "with data_lock" and each deletion is followed by "await
\* enviar_mensaje(...)": the step ends suspended in the first await with
\* data_lock held.
CerrarNoAdmin(c) ==
    /\ BucleLibre
    /\ EnMenu(c)
    /\ c \in DOMAIN sesiones_activas
    /\ IF sesiones_activas[c].rol # "admin"
       THEN /\ SinRespuesta
            /\ UNCHANGED <<sesiones_activas, data_lock, pendiente>>
       ELSE IF SesionesNoAdmin = << >>
       THEN /\ Responder(c, "0 sesiones no admin cerradas")
            /\ UNCHANGED <<sesiones_activas, data_lock, pendiente>>
       ELSE /\ sesiones_activas' = SinClave(sesiones_activas, Head(SesionesNoAdmin))
            /\ data_lock' = "manejar_mensaje"
            /\ pendiente' = [nombre |-> "manejar_mensaje", chat |-> c,
                             por_cerrar |-> Tail(SesionesNoAdmin),
                             cerradas |-> Len(SesionesNoAdmin)]
            /\ Responder(Head(SesionesNoAdmin), "Tu sesion ha sido cerrada")
    /\ UNCHANGED <<hosts, estados, monitoreo_global, alert_queue, hilos, reloj,
                   conv, user_data, disco, guardados, tareas, consumidor>>

\* The await of the suspended handler returns (entregado) or, for the reply
\* of confirmar_eliminar, raises.  "Cerrar sesiones no admin" goes on with
\* the next session or leaves the lock and answers the administrator;
\* confirmar_eliminar leaves the lock and, when the reply raised, answers
\* "Error interno" from its except clause.
Reanudar(entregado) ==
    /\ consumidor = ConsumidorLibre
    /\ pendiente # SinPendiente
    /\ IF pendiente.nombre = "manejar_mensaje" /\ pendiente.por_cerrar # << >>
       THEN /\ sesiones_activas' = SinClave(sesiones_activas, Head(pendiente.por_cerrar))
            /\ pendiente' = [pendiente EXCEPT !.por_cerrar = Tail(@)]
            /\ Responder(Head(pendiente.por_cerrar), "Tu sesion ha sido cerrada")
            /\ UNCHANGED data_lock
       ELSE /\ data_lock' = NADA
            /\ pendiente' = SinPendiente
            /\ UNCHANGED sesiones_activas
            /\ IF pendiente.nombre = "manejar_mensaje"
               THEN respuesta' = [chat |-> pendiente.chat,
                                  texto |-> "sesiones no admin cerradas",
                                  cerradas |-> pendiente.cerradas]
               ELSE IF entregado
               THEN SinRespuesta
               ELSE Responder(pendiente.chat, "Error interno")
    /\ UNCHANGED <<hosts, estados, monitoreo_global, alert_queue, hilos, reloj,
                   conv, user_data, disco, guardados, tareas, consumidor>>

\* sum(1 for ip in estado_hosts if estado_hosts[ip]["activo"])
Activos(grupo) ==
    Cardinality({ip \in DOMAIN estados[grupo].estado_hosts :
                    estados[grupo].estado_hosts[ip].activo})

\* "Estado general": per group the flag of the group, the number of hosts
\* that are alive and the number of hosts; and the global flag.
EstadoGeneral(c) ==
    /\ BucleLibre
    /\ EnMenu(c)
    /\ c \in DOMAIN sesiones_activas
    /\ respuesta' = [chat |-> c, texto |-> "Estado del Bot",
                     grupos |-> [g \in DOMAIN estados |->
                                    [activado |-> estados[g].activo,
                                     activos |-> Activos(g),
                                     total |-> Cardinality(DOMAIN estados[g].estado_hosts)]],
                     monitoreo_global |-> monitoreo_global]
    /\ UNCHANGED <<hosts, estados, monitoreo_global, alert_queue, sesiones_activas,
                   hilos, reloj, conv, user_data, disco, guardados,
                   data_lock, pendiente, tareas, consumidor>>

\* [(ip, name) for ip, name in hosts[grupo].items()
\*  if estados[grupo]["estado_hosts"][ip]["activo"] == activo]
Listado(grupo, activo) ==
    SelectSeq(hosts[grupo], LAMBDA e : estados[grupo].estado_hosts[e[1]].activo = activo)

\* "Hosts activos" (activo) and "Hosts inactivos" (~activo): per group, in
\* the order of estados, the hosts of hosts[grupo] whose flag is activo.
\* estado_hosts[ip] raises KeyError for a host that has no state.
ListarHosts(c, activo) ==
    /\ BucleLibre
    /\ EnMenu(c)
    /\ c \in DOMAIN sesiones_activas
    /\ IF \E g \in DOMAIN estados : ~(Claves(hosts[g]) \subseteq DOMAIN estados[g].estado_hosts)
       THEN Responder(c, "KeyError")
       ELSE respuesta' = [chat |-> c,
                          texto |-> IF activo THEN "Hosts Activos" ELSE "Hosts Inactivos",
                          grupos |-> [g \in DOMAIN estados |-> Listado(g, activo)]]
    /\ UNCHANGED <<hosts, estados, monitoreo_global, alert_queue, sesiones_activas,
                   hilos, reloj, conv, user_data, disco, guardados,
                   data_lock, pendiente, tareas, consumidor>>

\* "Listar sesiones": the sessions with identifier and role.
ListarSesiones(c) ==
    /\ BucleLibre
    /\ EnMenu(c)
    /\ c \in DOMAIN sesiones_activas
    /\ respuesta' = [chat |-> c, texto |-> "Sesiones Activas",
                     sesiones |-> sesiones_activas]
    /\ UNCHANGED <<hosts, estados, monitoreo_global, alert_queue, sesiones_activas,
                   hilos, reloj, conv, user_data, disco, guardados,
                   data_lock, pendiente, tareas, consumidor>>

\* "Control por grupo" and "Menu principal": a keyboard is sent.
Teclado(c, boton) ==
    /\ BucleLibre
    /\ EnMenu(c)
    /\ c \in DOMAIN sesiones_activas
    /\ boton \in {"Control por grupo", "Menu principal"}
    /\ Responder(c, IF boton = "Control por grupo" THEN "Selecciona grupo" ELSE "Menu Principal")
    /\ UNCHANGED <<hosts, estados, monitoreo_global, alert_queue, sesiones_activas,
                   hilos, reloj, conv, user_data, disco, guardados,
                   data_lock, pendiente, tareas, consumidor>>

\* ------------------------------------------------------------ persistence
\* A file of the disk is << >> when it does not exist and << contenido >>
\* when it does; disco.truncados names the files whose last write was cut
\* short, which then hold a prefix of the JSON text of their content.
\*
\* Where a run of guardar_hosts can fail: "ninguno" is the run that succeeds,
\* the others are the OSError raised by open(ARCHIVO, "rb") or
\* open(RESPALDO, "wb"), by dst.write, by open(ARCHIVO, "w") and by json.dump
\* (or the flush on close).
FallosGuardar == {"ninguno", "abrir_respaldo", "copiar_respaldo", "abrir_archivo", "volcar"}

\* The backup copy is attempted only when the snapshot file exists.
FallosPosibles(d) ==
    IF d.archivo = << >> THEN {"ninguno", "abrir_archivo", "volcar"} ELSE FallosGuardar

\* "if os.path.exists(ARCHIVO): dst.write(src.read())": the backup gets the
\* bytes of the snapshot file, a cut-short snapshot included.
Respaldar(d) ==
    IF d.archivo = << >>
    THEN d
    ELSE [d EXCEPT !.respaldo = d.archivo,
                   !.truncados = IF "archivo" \in d.truncados
                                 THEN @ \cup {"respaldo"}
                                 ELSE @ \ {"respaldo"}]

\* A run that writes nothing.
guardar_hosts_nada(d, h, fallo) == d

\* A run that overwrites the snapshot file without the backup copy.
guardar_hosts_sin_respaldo(d, h, fallo) ==
    [d EXCEPT !.archivo = << h >>, !.truncados = @ \ {"archivo"}]

\* A save that dumps the registry as it is before the command's mutation.
guardar_hosts_antes(d, h, fallo) ==
    CASE fallo = "abrir_respaldo" -> d
      [] fallo = "copiar_respaldo" ->
            [d EXCEPT !.respaldo = d.archivo, !.truncados = @ \cup {"respaldo"}]
      [] fallo = "abrir_archivo" -> Respaldar(d)
      [] fallo = "volcar" ->
            [Respaldar(d) EXCEPT !.archivo = << hosts >>, !.truncados = @ \cup {"archivo"}]
      [] OTHER ->
            [Respaldar(d) EXCEPT !.archivo = << hosts >>, !.truncados = @ \ {"archivo"}]

\* guardar_hosts: the snapshot file is copied to the backup when it exists,
\* then the snapshot file is opened for writing, which empties it, and the
\* whole hosts map is dumped into it. The disk it leaves when it fails at
\* fallo; every failure is re-raised to the caller.
guardar_hosts(d, h, fallo) ==
    CASE fallo = "abrir_respaldo" -> d
      [] fallo = "copiar_respaldo" ->
            [d EXCEPT !.respaldo = d.archivo, !.truncados = @ \cup {"respaldo"}]
      [] fallo = "abrir_archivo" -> Respaldar(d)
      [] fallo = "volcar" ->
            [Respaldar(d) EXCEPT !.archivo = << h >>, !.truncados = @ \cup {"archivo"}]
      [] OTHER ->
            [Respaldar(d) EXCEPT !.archivo = << h >>, !.truncados = @ \ {"archivo"}]

\* dict.update(otro): the pairs of otro are put one by one.
RECURSIVE Actualizar(_, _)
Actualizar(d, otro) ==
    IF otro = << >>
    THEN d
    ELSE Actualizar(Poner(d, otro[1][1], otro[1][2]), Tail(otro))

\* A value of the parsed file that dict.update accepts: a JSON object, here
\* a sequence of <<address, name>> pairs. Any other value (a list of
\* strings, a string) has an element that is no pair, and hosts[grupo].update
\* raises ValueError on it.
EsMapa(valor) == \A i \in DOMAIN valor : Len(valor[i]) = 2

\* The groups whose value in the parsed file d.archivo is a JSON array; an
\* array is held as the sequence of its elements, and an element that is a
\* string as the sequence of its characters.
Listas(archivo) == IF Len(archivo) > 1 THEN archivo[2] ELSE {}

\* "for ip in datos[grupo]": the keys of an object, the elements of an array.
Iterados(valor, es_lista) ==
    IF es_lista
    THEN {valor[i][1] \o valor[i][2] : i \in DOMAIN valor}
    ELSE Claves(valor)

\* "for grupo in hosts: if grupo in datos: hosts[grupo].update(datos[grupo]);
\* estados[grupo]["estado_hosts"].update({ip: <fresh state> ...})": the groups
\* gs still to visit, on the registry h and the states e merged so far. The
\* exception of update leaves the function with the groups before it merged.
RECURSIVE CargarGrupos(_, _, _, _, _)
CargarGrupos(datos, listas, gs, h, e) ==
    IF gs = << >>
    THEN [hosts |-> h, estados |-> e, excepcion |-> "ninguna"]
    ELSE LET grupo == Head(gs) IN
         IF grupo \notin DOMAIN datos
         THEN CargarGrupos(datos, listas, Tail(gs), h, e)
         ELSE IF ~EsMapa(datos[grupo])
         THEN [hosts |-> h, estados |-> e, excepcion |-> "ValueError"]
         ELSE LET nuevos == Iterados(datos[grupo], grupo \in listas) IN
              CargarGrupos(datos, listas, Tail(gs),
                  [h EXCEPT ![grupo] = Actualizar(@, datos[grupo])],
                  [e EXCEPT ![grupo].estado_hosts =
                      [ip \in DOMAIN @ \cup nuevos |->
                          IF ip \in nuevos THEN EstadoNuevo ELSE @[ip]]])

\* cargar_hosts on the disk d, from the registry h and the states e that the
\* module built: a missing file (FileNotFoundError) and a file that is no
\* JSON text (JSONDecodeError) are caught and leave h and e; no other
\* exception is caught.
cargar_hosts(d, h, e) ==
    IF d.archivo = << >> \/ "archivo" \in d.truncados
    THEN [hosts |-> h, estados |-> e, excepcion |-> "ninguna"]
    ELSE CargarGrupos(d.archivo[1], Listas(d.archivo), GruposEnOrden, h, e)

\* estados as the module builds it from the baked-in hosts.
estados_iniciales ==
    [g \in Grupos |->
        [activo |-> TRUE,
         estado_hosts |-> [ip \in Claves(hosts_iniciales[g]) |-> EstadoNuevo]]]

\* The dispatcher of a process whose main() died before run_polling: no
\* handler is reachable.
ConvCaido == [login |-> "CAIDO", agregar |-> "END", eliminar |-> "END"]

\* The process is stopped and started again: the module builds hosts and
\* estados from the baked-in sets, every other object in memory starts
\* empty, and main() calls cargar_hosts before it builds the application.
\* An exception that escapes cargar_hosts ends main().
Reiniciar ==
    LET r == cargar_hosts(disco, hosts_iniciales, estados_iniciales) IN
    /\ hosts' = r.hosts
    /\ estados' = r.estados
    /\ monitoreo_global' = FALSE
    /\ alert_queue' = << >>
    /\ sesiones_activas' = << >>
    /\ hilos' = EmptyBag
    /\ conv' = [c \in Chats |-> IF r.excepcion = "ninguna" THEN ConvInicial ELSE ConvCaido]
    /\ user_data' = [c \in Chats |-> UserDataInicial]
    /\ respuesta' = [chat |-> NADA,
                     texto |-> IF r.excepcion = "ninguna" THEN NADA ELSE r.excepcion]
    /\ data_lock' = NADA
    /\ pendiente' = SinPendiente
    /\ tareas' = EmptyBag
    /\ consumidor' = ConsumidorLibre
    /\ UNCHANGED <<reloj, disco, guardados>>

\* Files an operator may put in the place of the persistence file: the
\* camera under another name with one more host; a file without "servers"
\* and with a group that is not configured; a file whose "servers" value is
\* the list ["lista"].
ArchivosExternos ==
    { [cctv |-> << <<"2001:db8::1", "Portal">>, <<"10.0.0.1", "Srv1">> >>,
       servers |-> << >>],
      [cctv |-> << <<"10.0.0.1", "Srv1">> >>,
       otros |-> << <<"10.0.0.1", "Camara1">> >>],
      [cctv |-> << <<"10.0.0.1", "Srv1">> >>,
       servers |-> << <<"lista">> >>] }

\* A file whose value for cctv is the JSON array ["ab"], a list of one
\* string of two characters.
ArchivoConLista == << [cctv |-> << <<"a", "b">> >>], {"cctv"} >>

\* The files the operator can put in place of the persistence file.
Archivos == {<< contenido >> : contenido \in ArchivosExternos} \cup {ArchivoConLista}

\* The operator replaces the persistence file.
EditarArchivo(contenido) ==
    /\ disco' = [disco EXCEPT !.archivo = contenido, !.truncados = @ \ {"archivo"}]
    /\ SinRespuesta
    /\ UNCHANGED <<hosts, estados, monitoreo_global, alert_queue, sesiones_activas,
                   hilos, reloj, conv, user_data, guardados,
                   data_lock, pendiente, tareas, consumidor>>

\* A report that hides the failure of the save.
InformeSinError(fallo, hecho) == hecho

\* What the confirmation handlers answer after guardar_hosts: the exception
\* it re-raises skips the completion message and reaches "except
\* Exception", which answers "Error interno".
Informe(fallo, hecho) == IF fallo = "ninguno" THEN hecho ELSE "Error interno"

\* ------------------------------------------------------------ add host
TextosConfirmar == {"Confirmar", "Cancelar", "otro"}

\* Names a user may type: two valid ones, the empty text and one of 51
\* characters.
TextosNombre == Nombres \cup {"", "nombre de 51 caracteres"}

\* len(nombre)
Largo(nombre) ==
    CASE nombre = "" -> 0
      [] nombre = "nombre de 51 caracteres" -> 51
      [] nombre = "Camara1" -> 7
      [] OTHER -> 4

\* "Agregar Host" (entry point of the add-host conversation)
agregar_host(c) ==
    /\ BucleLibre
    /\ ~EnLogin(c)
    /\ conv[c].agregar = "END"
    /\ IF c \notin DOMAIN sesiones_activas
       THEN /\ Responder(c, "Usa /start para autenticarte")
            /\ UNCHANGED conv
       ELSE /\ Responder(c, "Agregar Host: selecciona un grupo")
            /\ conv' = [conv EXCEPT ![c].agregar = "GRUPO"]
    /\ UNCHANGED <<hosts, estados, monitoreo_global, alert_queue, sesiones_activas,
                   hilos, reloj, user_data, disco, guardados,
                   data_lock, pendiente, tareas, consumidor>>

recibir_grupo(c, mensaje) ==
    /\ BucleLibre
    /\ EnAgregar(c)
    /\ conv[c].agregar = "GRUPO"
    /\ LET texto == normalizar_grupo(mensaje) IN
       IF texto = "menu principal"
       THEN /\ Responder(c, "Menu Principal")
            /\ conv' = [conv EXCEPT ![c].agregar = "END"]
            /\ UNCHANGED user_data
       ELSE IF texto \notin DOMAIN hosts
       THEN /\ Responder(c, "Grupo invalido")
            /\ UNCHANGED <<conv, user_data>>
       ELSE /\ user_data' = [user_data EXCEPT ![c].grupo = texto]
            /\ Responder(c, "Ingresa la IP")
            /\ conv' = [conv EXCEPT ![c].agregar = "IP"]
    /\ UNCHANGED <<hosts, estados, monitoreo_global, alert_queue, sesiones_activas,
                   hilos, reloj, disco, guardados,
                   data_lock, pendiente, tareas, consumidor>>

\* recibir_ip: the duplicate test reads the text as typed, user_data keeps
\* the canonical spelling.
recibir_ip(c, ip) ==
    /\ BucleLibre
    /\ EnAgregar(c)
    /\ conv[c].agregar = "IP"
    /\ LET grupo == user_data[c].grupo IN
       IF ~ip_address_valida(ip)
       THEN /\ Responder(c, "IP invalida")
            /\ UNCHANGED <<conv, user_data>>
       ELSE IF ip \in Claves(hosts[grupo])
       THEN /\ Responder(c, "IP ya existe")
            /\ UNCHANGED <<conv, user_data>>
       ELSE /\ user_data' = [user_data EXCEPT ![c].ip = str_ip_address(ip)]
            /\ Responder(c, "Ingresa el nombre")
            /\ conv' = [conv EXCEPT ![c].agregar = "NOMBRE"]
    /\ UNCHANGED <<hosts, estados, monitoreo_global, alert_queue, sesiones_activas,
                   hilos, reloj, disco, guardados,
                   data_lock, pendiente, tareas, consumidor>>

recibir_nombre(c, nombre) ==
    /\ BucleLibre
    /\ EnAgregar(c)
    /\ conv[c].agregar = "NOMBRE"
    /\ IF nombre = "" \/ Largo(nombre) > 50
       THEN /\ Responder(c, "Nombre invalido")
            /\ UNCHANGED <<conv, user_data>>
       ELSE /\ user_data' = [user_data EXCEPT ![c].nombre = nombre]
            /\ Responder(c, "Confirmacion: vas a agregar")
            /\ conv' = [conv EXCEPT ![c].agregar = "CONFIRMAR_AGREGAR"]
    /\ UNCHANGED <<hosts, estados, monitoreo_global, alert_queue, sesiones_activas,
                   hilos, reloj, disco, guardados,
                   data_lock, pendiente, tareas, consumidor>>

\* not all([grupo, ip, nombre])
DatosIncompletos(u) == u.grupo \in {NADA, ""} \/ u.ip \in {NADA, ""} \/ u.nombre \in {NADA, ""}

\* The registry after "hosts[grupo][ip] = nombre; estados[grupo]
\* ["estado_hosts"][ip] = <fresh state>" of confirmar_agregar.
AgregarHosts(grupo, ip, nombre) == [hosts EXCEPT ![grupo] = Poner(@, ip, nombre)]

AgregarEstados(grupo, ip) ==
    [estados EXCEPT ![grupo].estado_hosts = ConClave(@, ip, EstadoNuevo)]

confirmar_agregar(c, texto, fallo) ==
    /\ BucleLibre
    /\ EnAgregar(c)
    /\ conv[c].agregar = "CONFIRMAR_AGREGAR"
    /\ LET u == user_data[c] IN
       CASE texto = "Cancelar" ->
              /\ Responder(c, "Operacion cancelada")
              /\ conv' = [conv EXCEPT ![c].agregar = "END"]
              /\ UNCHANGED <<hosts, estados, disco, guardados>>
         [] texto = "Confirmar" /\ DatosIncompletos(u) ->
              /\ Responder(c, "Error: Datos incompletos")
              /\ conv' = [conv EXCEPT ![c].agregar = "END"]
              /\ UNCHANGED <<hosts, estados, disco, guardados>>
         [] texto = "Confirmar" /\ ~DatosIncompletos(u) ->
              /\ hosts' = AgregarHosts(u.grupo, u.ip, u.nombre)
              /\ estados' = AgregarEstados(u.grupo, u.ip)
              /\ fallo \in FallosPosibles(disco)
              /\ disco' = guardar_hosts(disco, hosts', fallo)
              /\ guardados < MaxGuardados
              /\ guardados' = guardados + 1
              /\ Responder(c, Informe(fallo, "Host agregado"))
              /\ conv' = [conv EXCEPT ![c].agregar = "END"]
         [] OTHER ->
              /\ Responder(c, "Opcion invalida")
              /\ UNCHANGED <<hosts, estados, disco, guardados, conv>>
    /\ UNCHANGED <<monitoreo_global, alert_queue, sesiones_activas, hilos, reloj,
                   user_data,
                   data_lock, pendiente, tareas, consumidor>>

\* ------------------------------------------------------------ remove host
\* "Eliminar Host" (entry point of the remove-host conversation)
eliminar_host(c) ==
    /\ BucleLibre
    /\ ~EnLogin(c)
    /\ conv[c].agregar = "END"
    /\ conv[c].eliminar = "END"
    /\ IF c \notin DOMAIN sesiones_activas
       THEN /\ Responder(c, "Usa /start para autenticarte")
            /\ UNCHANGED conv
       ELSE /\ Responder(c, "Eliminar Host: selecciona un grupo")
            /\ conv' = [conv EXCEPT ![c].eliminar = "ELIMINAR_GRUPO"]
    /\ UNCHANGED <<hosts, estados, monitoreo_global, alert_queue, sesiones_activas,
                   hilos, reloj, user_data, disco, guardados,
                   data_lock, pendiente, tareas, consumidor>>

recibir_grupo_eliminar(c, mensaje) ==
    /\ BucleLibre
    /\ EnEliminar(c)
    /\ conv[c].eliminar = "ELIMINAR_GRUPO"
    /\ LET texto == normalizar_grupo(mensaje) IN
       IF texto = "menu principal"
       THEN /\ Responder(c, "Menu Principal")
            /\ conv' = [conv EXCEPT ![c].eliminar = "END"]
            /\ UNCHANGED user_data
       ELSE IF texto \notin DOMAIN hosts
       THEN /\ Responder(c, "Grupo invalido")
            /\ UNCHANGED <<conv, user_data>>
       ELSE /\ user_data' = [user_data EXCEPT ![c].grupo = texto]
            /\ IF hosts[texto] = << >>
               THEN /\ Responder(c, "No hay hosts")
                    /\ UNCHANGED conv
               ELSE /\ Responder(c, "Ingresa la IP para eliminar")
                    /\ conv' = [conv EXCEPT ![c].eliminar = "ELIMINAR_IP"]
    /\ UNCHANGED <<hosts, estados, monitoreo_global, alert_queue, sesiones_activas,
                   hilos, reloj, disco, guardados,
                   data_lock, pendiente, tareas, consumidor>>

recibir_ip_eliminar(c, ip) ==
    /\ BucleLibre
    /\ EnEliminar(c)
    /\ conv[c].eliminar = "ELIMINAR_IP"
    /\ LET grupo == user_data[c].grupo IN
       IF ip \notin Claves(hosts[grupo])
       THEN /\ Responder(c, "IP no encontrada")
            /\ UNCHANGED <<conv, user_data>>
       ELSE /\ user_data' = [user_data EXCEPT ![c].ip = ip,
                                               ![c].nombre = Valor(hosts[grupo], ip)]
            /\ Responder(c, "Confirmacion: vas a eliminar")
            /\ conv' = [conv EXCEPT ![c].eliminar = "CONFIRMAR_ELIMINAR"]
    /\ UNCHANGED <<hosts, estados, monitoreo_global, alert_queue, sesiones_activas,
                   hilos, reloj, disco, guardados,
                   data_lock, pendiente, tareas, consumidor>>

\* The registry after "del hosts[grupo][ip]; del estados[grupo]
\* ["estado_hosts"][ip]" of confirmar_eliminar.
EliminarHosts(grupo, ip) == [hosts EXCEPT ![grupo] = Quitar(@, ip)]

\* A removal that keeps the host's state.
EliminarEstadosNo(grupo, ip) == estados

EliminarEstados(grupo, ip) ==
    [estados EXCEPT ![grupo].estado_hosts = SinClave(@, ip)]

\* A membership test that never fails.
SiempreRegistrada(grupo, ip) == TRUE

\* ip in hosts[grupo], the test of confirmar_eliminar under data_lock
EstaRegistrada(grupo, ip) == ip \in Claves(hosts[grupo])

\* The "IP no encontrada" reply of confirmar_eliminar is awaited inside
\* "with data_lock": the step leaves the handler suspended in that await
\* with the lock held (Reanudar ends it).  The conversation state it returns
\* is written here, no update being handled before it returns.

confirmar_eliminar(c, texto, fallo) ==
    /\ BucleLibre
    /\ EnEliminar(c)
    /\ conv[c].eliminar = "CONFIRMAR_ELIMINAR"
    /\ LET u == user_data[c] IN
       CASE texto = "Cancelar" ->
              /\ Responder(c, "Operacion cancelada")
              /\ conv' = [conv EXCEPT ![c].eliminar = "END"]
              /\ UNCHANGED <<hosts, estados, disco, guardados>>
         [] texto = "Confirmar" /\ DatosIncompletos(u) ->
              /\ Responder(c, "Error: Datos incompletos")
              /\ conv' = [conv EXCEPT ![c].eliminar = "END"]
              /\ UNCHANGED <<hosts, estados, disco, guardados>>
         [] texto = "Confirmar" /\ ~DatosIncompletos(u) /\ EstaRegistrada(u.grupo, u.ip) ->
              /\ hosts' = EliminarHosts(u.grupo, u.ip)
              /\ estados' = EliminarEstados(u.grupo, u.ip)
              /\ fallo \in FallosPosibles(disco)
              /\ disco' = guardar_hosts(disco, hosts', fallo)
              /\ guardados < MaxGuardados
              /\ guardados' = guardados + 1
              /\ Responder(c, Informe(fallo, "Host eliminado"))
              /\ conv' = [conv EXCEPT ![c].eliminar = "END"]
         [] texto = "Confirmar" /\ ~DatosIncompletos(u) /\ ~EstaRegistrada(u.grupo, u.ip) ->
              /\ Responder(c, "Error: IP no encontrada")
              /\ conv' = [conv EXCEPT ![c].eliminar = "END"]
              /\ UNCHANGED <<hosts, estados, disco, guardados>>
         [] OTHER ->
              /\ Responder(c, "Opcion invalida")
              /\ UNCHANGED <<hosts, estados, disco, guardados, conv>>
    /\ IF texto = "Confirmar" /\ ~DatosIncompletos(user_data[c])
          /\ ~EstaRegistrada(user_data[c].grupo, user_data[c].ip)
       THEN /\ data_lock' = "confirmar_eliminar"
            /\ pendiente' = [SinPendiente EXCEPT !.nombre = "confirmar_eliminar", !.chat = c]
       ELSE UNCHANGED <<data_lock, pendiente>>
    /\ UNCHANGED <<monitoreo_global, alert_queue, sesiones_activas, hilos, reloj,
                   user_data, tareas, consumidor>>

\* /cancel: the fallback of the conversation the chat is in.
cancelar(c) ==
    /\ BucleLibre
    /\ ~EnLogin(c)
    /\ conv[c].agregar # "END" \/ conv[c].eliminar # "END"
    /\ conv' = [conv EXCEPT ![c] = IF conv[c].agregar # "END"
                                    THEN [@ EXCEPT !.agregar = "END"]
                                    ELSE [@ EXCEPT !.eliminar = "END"]]
    /\ Responder(c, "Operacion cancelada")
    /\ UNCHANGED <<hosts, estados, monitoreo_global, alert_queue, sesiones_activas,
                   hilos, reloj, user_data, disco, guardados,
                   data_lock, pendiente, tareas, consumidor>>

\* ------------------------------------------------------------ behaviours
\* The steps of the monitoring engine: the loop threads, their probes, the
\* clock and the alert consumer.
MonitoreoCon(resultados) ==
    \/ \E t \in BagToSet(hilos) : Revisar(t) \/ Dormir(t) \/ Morir(t)
    \/ \E t \in BagToSet(hilos), ip \in TextosIP : Registrar(t, ip)
    \/ \E t \in BagToSet(hilos), ip \in TextosIP, resultado \in resultados :
          Ping(t, ip, resultado)
    \/ Tic
    \/ procesar_alertas
    \/ \E tarea \in BagToSet(tareas), enviados \in Envios : enviar_mensaje(tarea, enviados)

\* With every outcome of the probe.
Monitoreo == MonitoreoCon(ResultadosPing)

\* The updates chat c may send that reach the login handler or
\* manejar_mensaje.
Comandos(c) ==
    \/ start(c)
    \/ \E identificador \in Identificadores : verificar_identificador(c, identificador)
    \/ SinSesion(c)
    \/ IniciarTodo(c)
    \/ DetenerTodo(c)
    \/ \E boton \in {"CCTV", "Servidores"} : ToggleGrupo(c, boton)
    \/ CerrarSesion(c)
    \/ CerrarNoAdmin(c)
    \/ EstadoGeneral(c)
    \/ \E activo \in BOOLEAN : ListarHosts(c, activo)
    \/ ListarSesiones(c)
    \/ \E boton \in {"Control por grupo", "Menu principal"} : Teclado(c, boton)

\* The updates chat c may send that reach the add-host or remove-host
\* conversation.
Asistentes(c) ==
    \/ agregar_host(c)
    \/ \E mensaje \in TextosGrupo : recibir_grupo(c, mensaje)
    \/ \E ip \in TextosIP : recibir_ip(c, ip)
    \/ \E nombre \in TextosNombre : recibir_nombre(c, nombre)
    \/ \E texto \in TextosConfirmar, fallo \in FallosGuardar : confirmar_agregar(c, texto, fallo)
    \/ eliminar_host(c)
    \/ \E mensaje \in TextosGrupo : recibir_grupo_eliminar(c, mensaje)
    \/ \E ip \in TextosIP : recibir_ip_eliminar(c, ip)
    \/ \E texto \in TextosConfirmar, fallo \in FallosGuardar : confirmar_eliminar(c, texto, fallo)
    \/ cancelar(c)

Next ==
    \/ Monitoreo
    \/ \E entregado \in BOOLEAN : Reanudar(entregado)
    \/ \E c \in Chats : Comandos(c) \/ Asistentes(c)

Spec == Init /\ [][Next]_vars

\* ---------------------------------------------------------------------
\* Scenarios: the same actions with the updates narrowed to the ones a group
\* of properties is about, so that each scenario is explored exhaustively.

\* /start and the administrator's identifier.
Acceso(c) == start(c) \/ verificar_identificador(c, "clave_admin")

\* The monitoring buttons of the main menu.
Mando(c) ==
    \/ IniciarTodo(c)
    \/ DetenerTodo(c)
    \/ \E boton \in {"CCTV", "Servidores"} : ToggleGrupo(c, boton)

\* The add-host conversation for the address of the registered camera,
\* written with capital letters.
AltaRepetida(c) ==
    \/ agregar_host(c)
    \/ recibir_grupo(c, "CCTV")
    \/ recibir_ip(c, "2001:DB8::1")
    \/ recibir_nombre(c, "Srv1")
    \/ confirmar_agregar(c, "Confirmar", "ninguno")

\* The remove-host conversation for the registered camera.
Baja(c) ==
    \/ eliminar_host(c)
    \/ recibir_grupo_eliminar(c, "CCTV")
    \/ recibir_ip_eliminar(c, "2001:db8::1")
    \/ confirmar_eliminar(c, "Confirmar", "ninguno")

GruposRegistro == {"CCTV", "servers", "Servidores"}

IPsRegistro == {"2001:db8::1", "2001:DB8::1", "not-an-ip"}

\* Both conversations, for one address in its two spellings.
Registro(c) ==
    \/ agregar_host(c)
    \/ \E mensaje \in GruposRegistro : recibir_grupo(c, mensaje)
    \/ \E ip \in IPsRegistro : recibir_ip(c, ip)
    \/ recibir_nombre(c, "Srv1")
    \/ \E texto \in {"Confirmar", "Cancelar"} : confirmar_agregar(c, texto, "ninguno")
    \/ eliminar_host(c)
    \/ \E mensaje \in GruposRegistro : recibir_grupo_eliminar(c, mensaje)
    \/ \E ip \in IPsRegistro : recibir_ip_eliminar(c, ip)
    \/ \E texto \in {"Confirmar", "Cancelar"} : confirmar_eliminar(c, texto, "ninguno")
    \/ cancelar(c)

\* One administrator starts monitoring and adds the camera again while the
\* loops probe it.
NextSondeo ==
    \/ Monitoreo
    \/ Acceso("chat1")
    \/ IniciarTodo("chat1")
    \/ AltaRepetida("chat1")

SpecSondeo == Init /\ [][NextSondeo]_vars

\* One administrator starts monitoring; the registry does not change.
NextCaida ==
    \/ Monitoreo
    \/ Acceso("chat1")
    \/ IniciarTodo("chat1")

SpecCaida == Init /\ [][NextCaida]_vars

\* One administrator starts, stops and toggles monitoring and removes the
\* camera while the loops probe it.
NextHilos ==
    \/ Monitoreo
    \/ Acceso("chat1")
    \/ Mando("chat1")
    \/ Baja("chat1")

SpecHilos == Init /\ [][NextHilos]_vars

\* Two administrators add and remove hosts; monitoring is off.
NextRegistro ==
    \/ \E c \in Chats : Acceso(c) \/ Registro(c)
    \/ Reanudar(TRUE)

SpecRegistro == Init /\ [][NextRegistro]_vars

\* The add-host conversation for the camera's own address and spelling.
Alta(c) ==
    \/ agregar_host(c)
    \/ recibir_grupo(c, "CCTV")
    \/ recibir_ip(c, "2001:db8::1")
    \/ recibir_nombre(c, "Srv1")
    \/ confirmar_agregar(c, "Confirmar", "ninguno")

\* One administrator starts monitoring, removes the camera and adds it
\* again while the loops probe it and every probe fails.
NextReingreso ==
    \/ MonitoreoCon({"exit_1"})
    \/ Acceso("chat1")
    \/ IniciarTodo("chat1")
    \/ Baja("chat1")
    \/ Alta("chat1")

SpecReingreso == Init /\ [][NextReingreso]_vars

\* The add-host conversation with every text of the domains above (valid
\* and invalid groups, addresses and names) and saves that succeed.
AsistenteAlta(c) ==
    \/ agregar_host(c)
    \/ \E mensaje \in TextosGrupo : recibir_grupo(c, mensaje)
    \/ \E ip \in TextosIP : recibir_ip(c, ip)
    \/ \E nombre \in TextosNombre : recibir_nombre(c, nombre)
    \/ \E texto \in TextosConfirmar : confirmar_agregar(c, texto, "ninguno")
    \/ cancelar(c)

\* One administrator in the add-host conversation.
NextAsistente == Acceso("chat1") \/ AsistenteAlta("chat1")

SpecAsistente == Init /\ [][NextAsistente]_vars

\* The add-host conversation for a new server, with every outcome of the
\* save.
AltaServidor(c) ==
    \/ agregar_host(c)
    \/ recibir_grupo(c, "servers")
    \/ recibir_ip(c, "10.0.0.1")
    \/ recibir_nombre(c, "Srv1")
    \/ \E fallo \in FallosGuardar : confirmar_agregar(c, "Confirmar", fallo)

\* The remove-host conversation for the baked-in camera, with every outcome
\* of the save.
BajaCamara(c) ==
    \/ eliminar_host(c)
    \/ recibir_grupo_eliminar(c, "CCTV")
    \/ recibir_ip_eliminar(c, "2001:db8::1")
    \/ \E fallo \in FallosGuardar : confirmar_eliminar(c, "Confirmar", fallo)

\* One administrator adds a server and removes the camera, the saves fail
\* or succeed, the operator replaces the file and the process is restarted.
NextPersistencia ==
    \/ Acceso("chat1")
    \/ AltaServidor("chat1")
    \/ BajaCamara("chat1")
    \/ \E contenido \in ArchivosExternos : EditarArchivo(<< contenido >>)
    \/ Reiniciar

SpecPersistencia == Init /\ [][NextPersistencia]_vars

\* ---------------------------------------------------------------------
\* Properties of the debounce state machine (monitoreo_host).

EstadoDe(g, ip) == estados[g].estado_hosts[ip]

Registrado(g, ip) == ip \in DOMAIN estados[g].estado_hosts

\* The same in the state the step leads to.
EstadoSig(g, ip) == estados'[g].estado_hosts[ip]

RegistradoSig(g, ip) == ip \in DOMAIN estados'[g].estado_hosts

\* The alerts the step put on alert_queue (a step never both puts and gets).
Encoladas ==
    IF Len(alert_queue') > Len(alert_queue)
    THEN SubSeq(alert_queue', Len(alert_queue) + 1, Len(alert_queue'))
    ELSE << >>

\* Thread t's future for ip runs the critical section of monitoreo_host on a
\* host that is registered, with a probe that succeeded (ok) or failed.
Registra(t, ip, ok) ==
    /\ Registrar(t, ip)
    /\ Registrado(t.grupo, ip)
    /\ t.futuros[ip].estado_actual = ok

AlertaDe(tipo, t, ip) == Alerta(tipo, t.grupo, ip, Valor(t.hosts_copy, ip))

\* C1: when monitoreo_host records the failure that brings the counter of
\* a host that is alive to MAX_FALLOS, the host's activo becomes false and
\* exactly one DOWN alert (and nothing else) is put on alert_queue; and a
\* DOWN alert for a host is put on the queue only by a step that takes that
\* host from alive to down, so that a second one needs the host to be alive
\* again first.  The consecutive failures are the ones the code counts in
\* "fallos".
C1_CaidaUnaVez ==
    [][ /\ \A t \in BagToSet(hilos), ip \in TextosIP :
              /\ Registra(t, ip, FALSE)
              /\ EstadoDe(t.grupo, ip).activo
              /\ EstadoDe(t.grupo, ip).fallos + 1 = MAX_FALLOS
              => /\ ~EstadoSig(t.grupo, ip).activo
                 /\ alert_queue' = Append(alert_queue, AlertaDe("ALERTA", t, ip))
        /\ \A i \in DOMAIN Encoladas :
              Encoladas[i].tipo = "ALERTA"
              => LET g == Encoladas[i].grupo
                     ip == Encoladas[i].ip
                 IN /\ Len(Encoladas) = 1
                    /\ Registrado(g, ip) /\ EstadoDe(g, ip).activo
                    /\ ~EstadoSig(g, ip).activo
      ]_vars

\* C1 happens: the camera is down at exactly MAX_FALLOS failures and its
\* DOWN alert waits on the queue.
C1_Testigo ==
    /\ Registrado("cctv", "2001:db8::1")
    /\ ~EstadoDe("cctv", "2001:db8::1").activo
    /\ EstadoDe("cctv", "2001:db8::1").fallos = MAX_FALLOS
    /\ \E i \in DOMAIN alert_queue :
          alert_queue[i].tipo = "ALERTA" /\ alert_queue[i].ip = "2001:db8::1"

\* C2: for a host that is down, a failed probe whose time.time() is now
\* puts a PERSISTENT-DOWN alert on the queue if and only if
\* now - ultima_alerta >= INTERVALO_ALERTA_PERSISTENTE; the alert moves
\* ultima_alerta to now (so the next one is at least a cooldown later), and
\* without the alert neither the queue nor ultima_alerta changes.
C2_AlertaPersistente ==
    [][ \A t \in BagToSet(hilos), ip \in TextosIP :
           Registra(t, ip, FALSE) /\ ~EstadoDe(t.grupo, ip).activo
           => LET now == t.futuros[ip].current_time
                  e == EstadoDe(t.grupo, ip)
              IN IF now - e.ultima_alerta >= INTERVALO_ALERTA_PERSISTENTE
                 THEN /\ alert_queue' =
                            Append(alert_queue, AlertaDe("ALERTA PERSISTENTE", t, ip))
                      /\ EstadoSig(t.grupo, ip).ultima_alerta = now
                      /\ ~EstadoSig(t.grupo, ip).activo
                 ELSE /\ alert_queue' = alert_queue
                      /\ EstadoSig(t.grupo, ip).ultima_alerta = e.ultima_alerta
                      /\ ~EstadoSig(t.grupo, ip).activo
      ]_vars

\* C2 happens: the camera is still down a cooldown after its DOWN alert and
\* the PERSISTENT-DOWN alert waits on the queue.
C2_Testigo ==
    /\ Registrado("cctv", "2001:db8::1")
    /\ ~EstadoDe("cctv", "2001:db8::1").activo
    /\ EstadoDe("cctv", "2001:db8::1").ultima_alerta = RelojInicial + RelojPaso
    /\ \E i \in DOMAIN alert_queue : alert_queue[i].tipo = "ALERTA PERSISTENTE"

\* C3: every successful probe monitoreo_host records sets the host's
\* failure counter to 0 and leaves the host alive; it puts exactly one
\* RECOVERED alert on the queue when the host was down and nothing when the
\* host was alive.
C3_ExitoReinicia ==
    [][ \A t \in BagToSet(hilos), ip \in TextosIP :
           Registra(t, ip, TRUE)
           => /\ EstadoSig(t.grupo, ip).fallos = 0
              /\ EstadoSig(t.grupo, ip).activo
              /\ IF EstadoDe(t.grupo, ip).activo
                 THEN alert_queue' = alert_queue
                 ELSE alert_queue' = Append(alert_queue, AlertaDe("RECUPERADO", t, ip))
      ]_vars

\* C3 happens: the camera answered after being down; its counter is 0 and
\* the RECOVERED alert waits on the queue.
C3_Testigo ==
    /\ Registrado("cctv", "2001:db8::1")
    /\ EstadoDe("cctv", "2001:db8::1").activo
    /\ EstadoDe("cctv", "2001:db8::1").fallos = 0
    /\ EstadoDe("cctv", "2001:db8::1").ultima_alerta > 0
    /\ \E i \in DOMAIN alert_queue : alert_queue[i].tipo = "RECUPERADO"

\* C4: a failed probe that leaves the counter of a host that is alive below
\* MAX_FALLOS puts no alert on the queue and leaves the host alive; the
\* activo flag of a registered host goes from true to false only in a step
\* that leaves the counter at MAX_FALLOS or more, and from false to true
\* only in a step that records a successful probe of that host.
C4_Histeresis ==
    [][ /\ \A t \in BagToSet(hilos), ip \in TextosIP :
              /\ Registra(t, ip, FALSE)
              /\ EstadoDe(t.grupo, ip).activo
              /\ EstadoDe(t.grupo, ip).fallos + 1 < MAX_FALLOS
              => /\ alert_queue' = alert_queue
                 /\ EstadoSig(t.grupo, ip).activo
        /\ \A g \in Grupos, ip \in TextosIP :
              Registrado(g, ip) /\ RegistradoSig(g, ip)
              => /\ EstadoDe(g, ip).activo /\ ~EstadoSig(g, ip).activo
                    => EstadoSig(g, ip).fallos >= MAX_FALLOS
                 /\ ~EstadoDe(g, ip).activo /\ EstadoSig(g, ip).activo
                    => \E t \in BagToSet(hilos) :
                          t.grupo = g /\ Registra(t, ip, TRUE)
      ]_vars

\* ---------------------------------------------------------------------
\* Properties of the group loops (monitoreo_grupo_thread).

\* C5: in every reachable state each group has at most one thread running
\* monitoreo_grupo_thread, whatever 'Iniciar todo', 'Detener todo' and
\* group buttons were pressed before.
C5_UnHiloPorGrupo == \A g \in Grupos : HilosVivos(g) <= 1

\* Thread t is in a round (waiting on its futures) with one of the flags
\* its loop reads off.
EnRondaApagada(t, apagado) == t.pc = "esperar" /\ apagado

\* The step ends thread t's loop or leaves it at the top of the loop with
\* no round started.
NoEmpiezaRonda(t) ==
    \A x \in BagToSet(hilos') : x.grupo = t.grupo /\ x.pc = "esperar"
                                    => x \in BagToSet(hilos) /\ hilos'[x] <= hilos[x]

\* C6: when a group is disabled while a round of its loop is in flight, the
\* critical section of every host of the round's snapshot finds the host and
\* records the result, the loop waits for all of them (it does not leave the
\* round on an exception), and at its next check the loop starts no round.
C6_RondaDeGrupoApagado ==
    [][ \A t \in BagToSet(hilos) :
           /\ EnRondaApagada(t, ~estados[t.grupo].activo)
              => /\ ~Morir(t)
                 /\ \A ip \in DOMAIN t.futuros :
                       Registrar(t, ip) => Registrado(t.grupo, ip)
           /\ Revisar(t) /\ ~estados[t.grupo].activo => NoEmpiezaRonda(t)
      ]_vars

\* C7: once 'Detener todo' has set monitoreo_global to false, a loop that is
\* in a round leaves the round only with every result of the round recorded
\* (never on an exception), and a loop at its check starts no round while
\* monitoreo_global is false or its group is disabled.
C7_RondaTrasDetener ==
    [][ \A t \in BagToSet(hilos) :
           /\ EnRondaApagada(t, ~monitoreo_global)
              => /\ ~Morir(t)
                 /\ \A ip \in DOMAIN t.futuros :
                       Registrar(t, ip) => Registrado(t.grupo, ip)
           /\ Revisar(t) /\ (~monitoreo_global \/ ~estados[t.grupo].activo)
              => NoEmpiezaRonda(t)
      ]_vars

\* ---------------------------------------------------------------------
\* Properties of the add-host and remove-host conversations.

\* C8: in every reachable state an address is a key of hosts[g] for at most
\* one group g.
C8_UnGrupoPorDireccion ==
    \A ip \in TextosIP : Cardinality({g \in Grupos : ip \in Claves(hosts[g])}) <= 1

\* Chat c confirms the conversation's pending operation with complete data
\* (grupo, ip and nombre in user_data).
ConfirmaCon(c) == ~DatosIncompletos(user_data[c])

EnRegistro(c) == user_data[c].ip \in Claves(hosts[user_data[c].grupo])

\* C9: a confirmed add-host whose address is a key of hosts[grupo] when
\* confirmar_agregar applies it leaves hosts and estados as they were (name
\* and state of the host unchanged), saves nothing and does not report that
\* the host was added.
C9_AltaDuplicada ==
    [][ \A c \in Chats :
           confirmar_agregar(c, "Confirmar", "ninguno") /\ ConfirmaCon(c) /\ EnRegistro(c)
           => /\ UNCHANGED <<hosts, estados, disco, guardados>>
              /\ respuesta'.texto # "Host agregado"
      ]_vars

\* C10: a confirmed remove-host whose address is not a key of hosts[grupo]
\* when confirmar_eliminar applies it answers the chat that the address was
\* not found, ends the conversation, leaves hosts and estados unchanged and
\* does not call guardar_hosts.
C10_BajaAusente ==
    [][ \A c \in Chats :
           confirmar_eliminar(c, "Confirmar", "ninguno") /\ ConfirmaCon(c) /\ ~EnRegistro(c)
           => /\ respuesta' = [chat |-> c, texto |-> "Error: IP no encontrada"]
              /\ conv'[c].eliminar = "END"
              /\ UNCHANGED <<hosts, estados, disco, guardados>>
      ]_vars

\* C10 happens: a chat was told that the camera was not found, after the
\* other chat's removal took it out of the registry and saved; the chat's
\* conversation had validated the address and has ended.
C10_Testigo ==
    \E c \in Chats :
       /\ respuesta = [chat |-> c, texto |-> "Error: IP no encontrada"]
       /\ user_data[c].grupo = "cctv" /\ user_data[c].ip = "2001:db8::1"
       /\ conv[c].eliminar = "END"
       /\ hosts["cctv"] = << >>
       /\ guardados = 1
       /\ disco.archivo = << hosts >>

\* C11: an address that is no IP literal, and a name that is empty or longer
\* than 50 characters, are rejected where they are typed: the step changes
\* neither hosts nor estados, does not call guardar_hosts, keeps the
\* conversation where it was and stores nothing in user_data; and no step
\* ever puts into hosts an address that is no IP literal or a name that is
\* empty or longer than 50 characters.
C11_EntradaInvalida ==
    [][ /\ \A c \in Chats, ip \in TextosIP :
              recibir_ip(c, ip) /\ ~(ip \in {"10.0.0.1", "2001:db8::1", "2001:DB8::1"})
              => /\ UNCHANGED <<hosts, estados, disco, guardados, conv, user_data>>
                 /\ respuesta' = [chat |-> c, texto |-> "IP invalida"]
        /\ \A c \in Chats, nombre \in TextosNombre :
              recibir_nombre(c, nombre)
              /\ nombre \in {"", "nombre de 51 caracteres"}
              => /\ UNCHANGED <<hosts, estados, disco, guardados, conv, user_data>>
                 /\ respuesta' = [chat |-> c, texto |-> "Nombre invalido"]
        /\ \A g \in Grupos : \A i \in DOMAIN hosts'[g] :
              LET par == hosts'[g][i] IN
              (\A j \in DOMAIN hosts[g] : hosts[g][j] # par)
              => /\ par[1] \in {"10.0.0.1", "2001:db8::1"}
                 /\ par[2] \in Nombres
      ]_vars

\* C11 happens: the chat has just been told that its address is invalid,
\* after an earlier add of the same conversation was applied and saved.
C11_Testigo ==
    /\ respuesta = [chat |-> "chat1", texto |-> "IP invalida"]
    /\ conv["chat1"].agregar = "IP"
    /\ guardados = 1

\* C12: a confirmed remove-host of a registered address drops the host's
\* state whatever it was, and a confirmed add-host of an address that is not
\* registered in the group (the one just removed, or a new one) registers
\* it under the given name with fallos = 0, activo = true and
\* ultima_alerta = 0.
C12_BajaYAlta ==
    [][ \A c \in Chats :
           LET g == user_data[c].grupo
               ip == user_data[c].ip
           IN /\ confirmar_eliminar(c, "Confirmar", "ninguno") /\ ConfirmaCon(c) /\ EnRegistro(c)
                 => ~RegistradoSig(g, ip) /\ ip \notin Claves(hosts'[g])
              /\ confirmar_agregar(c, "Confirmar", "ninguno") /\ ConfirmaCon(c) /\ ~EnRegistro(c)
                 => /\ RegistradoSig(g, ip)
                    /\ EstadoSig(g, ip) = [activo |-> TRUE, fallos |-> 0, ultima_alerta |-> 0]
                    /\ Valor(hosts'[g], ip) = user_data[c].nombre
      ]_vars

\* C12 happens: the camera went down (its DOWN alert still waits on the
\* queue), was removed (the backup file holds the registry without it) and
\* was added again; its state is the fresh one.
C12_Testigo ==
    /\ respuesta = [chat |-> "chat1", texto |-> "Host agregado"]
    /\ disco.respaldo = << [g \in Grupos |-> << >>] >>
    /\ \E i \in DOMAIN alert_queue :
          alert_queue[i].tipo = "ALERTA" /\ alert_queue[i].ip = "2001:db8::1"
    /\ Registrado("cctv", "2001:db8::1")
    /\ EstadoDe("cctv", "2001:db8::1") = [activo |-> TRUE, fallos |-> 0, ultima_alerta |-> 0]


\* ---------------------------------------------------------------------
\* Properties of persistence (guardar_hosts, cargar_hosts).

\* The same address-to-name mapping, whatever the order of the entries.
MismoMapa(a, b) ==
    /\ Claves(a) = Claves(b)
    /\ \A k \in Claves(a) : Valor(a, k) = Valor(b, k)

\* The snapshot file is the complete image of the registry in memory: it
\* was saved and the registry has not been mutated since.
Guardado == disco.archivo = << hosts >> /\ "archivo" \notin disco.truncados

\* C13: when the process is restarted while the snapshot file is the saved
\* image of the registry, the load at startup yields for every group exactly
\* the mapping that was saved; a removed host of the baked-in set is not
\* registered after the load.
C13_GuardarYCargar ==
    [][ Reiniciar /\ guardados > 0 /\ Guardado
        => \A g \in Grupos : MismoMapa(hosts'[g], hosts[g]) ]_vars

\* The step is the confirmation handler of one of the two conversations of
\* chat c, with any text and any outcome of the save.
Confirma(c) ==
    \E texto \in TextosConfirmar, fallo \in FallosGuardar :
        confirmar_agregar(c, texto, fallo) \/ confirmar_eliminar(c, texto, fallo)

\* C14: a confirmation step that mutates the registry runs guardar_hosts, and
\* when it reports completion ("Host agregado", "Host eliminado") the run
\* came after the mutation and before the report: the snapshot file holds,
\* complete, the registry as mutated.
C14_GuardarTrasMutar ==
    [][ \A c \in Chats :
          Confirma(c)
          => /\ (hosts' # hosts \/ estados' # estados) => guardados' = guardados + 1
             /\ respuesta'.texto \in {"Host agregado", "Host eliminado"}
                => /\ guardados' = guardados + 1
                   /\ disco'.archivo = << hosts' >>
                   /\ "archivo" \notin disco'.truncados ]_vars

C14_Testigo ==
    /\ respuesta = [chat |-> "chat1", texto |-> "Host eliminado"]
    /\ guardados = 2
    /\ hosts = [cctv |-> << >>, servers |-> << <<"10.0.0.1", "Srv1">> >>]
    /\ disco.archivo = << hosts >>

\* C15: a run of guardar_hosts that starts with a complete snapshot file (or
\* none) never leaves the snapshot file partial: after the step the file
\* holds, complete, either what it held before or the new registry.
C15_GuardadoFallido ==
    [][ \A c \in Chats :
          Confirma(c) /\ guardados' = guardados + 1 /\ "archivo" \notin disco.truncados
          => /\ "archivo" \notin disco'.truncados
             /\ disco'.archivo = disco.archivo \/ disco'.archivo = << hosts' >> ]_vars

\* The step of chat c ran guardar_hosts while a snapshot file existed.
GuardaSobre(c) == Confirma(c) /\ guardados' = guardados + 1 /\ disco.archivo # << >>

\* The backup file holds the bytes the snapshot file held before the step.
RespaldoDelAnterior ==
    /\ disco'.respaldo = disco.archivo
    /\ "respaldo" \in disco'.truncados <=> "archivo" \in disco.truncados

\* C16: when a snapshot file exists as guardar_hosts starts, a step that
\* writes to the snapshot file (completely or not) has first copied it to the
\* backup, and after a successful save the backup holds exactly the content
\* the snapshot file had before that save.
C16_RespaldoAntes ==
    [][ \A c \in Chats :
          GuardaSobre(c)
          => /\ (disco'.archivo # disco.archivo
                    \/ ("archivo" \in disco'.truncados) # ("archivo" \in disco.truncados))
                => RespaldoDelAnterior
             /\ respuesta'.texto \in {"Host agregado", "Host eliminado"}
                => RespaldoDelAnterior ]_vars

C16_Testigo ==
    /\ respuesta = [chat |-> "chat1", texto |-> "Host eliminado"]
    /\ disco.archivo = << [cctv |-> << >>, servers |-> << <<"10.0.0.1", "Srv1">> >>] >>
    /\ disco.respaldo = << [cctv |-> << <<"2001:db8::1", "Camara1">> >>,
                            servers |-> << <<"10.0.0.1", "Srv1">> >>] >>
    /\ disco.truncados = {}

\* C17: when guardar_hosts fails in a confirmed add or remove, the chat is
\* answered "Error interno" and the mutation stays in memory (the added host
\* is in hosts and estados, the removed host is in neither); a later save
\* that succeeds writes the whole registry, that mutation included.
C17_FalloInformado ==
    [][ \A c \in Chats :
          LET g == user_data[c].grupo
              ip == user_data[c].ip
          IN /\ \A fallo \in FallosGuardar \ {"ninguno"} :
                  /\ confirmar_agregar(c, "Confirmar", fallo) /\ ConfirmaCon(c)
                     => /\ respuesta' = [chat |-> c, texto |-> "Error interno"]
                        /\ ip \in Claves(hosts'[g])
                        /\ Valor(hosts'[g], ip) = user_data[c].nombre
                        /\ RegistradoSig(g, ip)
                  /\ confirmar_eliminar(c, "Confirmar", fallo) /\ ConfirmaCon(c) /\ EnRegistro(c)
                     => /\ respuesta' = [chat |-> c, texto |-> "Error interno"]
                        /\ ip \notin Claves(hosts'[g])
                        /\ ~RegistradoSig(g, ip)
             /\ Confirma(c) /\ guardados' = guardados + 1
                   /\ respuesta'.texto # "Error interno"
                => disco'.archivo = << hosts' >> /\ "archivo" \notin disco'.truncados ]_vars

\* The save of the first mutation failed before it wrote anything, the save
\* of the second one succeeded and wrote both.
C17_Testigo ==
    /\ guardados = 2
    /\ respuesta.texto \in {"Host agregado", "Host eliminado"}
    /\ hosts = [cctv |-> << >>, servers |-> << <<"10.0.0.1", "Srv1">> >>]
    /\ disco = [archivo |-> << hosts >>, respaldo |-> << >>, truncados |-> {}]

\* The persistence file cannot be parsed: it holds a cut-short JSON text.
NoParseable == disco.archivo # << >> /\ "archivo" \in disco.truncados

\* The persistence file parses but some group's value is no address-to-name
\* mapping.
GrupoMalformado ==
    /\ disco.archivo # << >>
    /\ "archivo" \notin disco.truncados
    /\ \/ \E g \in DOMAIN disco.archivo[1] : ~EsMapa(disco.archivo[1][g])
       \/ Listas(disco.archivo) # {}

\* The process is up with the registry and the states of the baked-in set.
SoloIniciales ==
    /\ hosts' = hosts_iniciales
    /\ estados' = estados_iniciales
    /\ respuesta'.texto = NADA
    /\ \A c \in Chats : conv'[c] = ConvInicial

\* C18: when the process starts with the persistence file missing, not
\* parseable or holding a group value that is no mapping, cargar_hosts
\* returns normally and the registry is exactly the baked-in set: no group
\* is merged and no exception escapes.
C18_ArchivoMalformado ==
    [][ Reiniciar /\ (disco.archivo = << >> \/ NoParseable \/ GrupoMalformado)
        => SoloIniciales ]_vars

\* The parsed persistence file, when it is well formed: every group value
\* is a mapping.
BienFormado ==
    /\ disco.archivo # << >>
    /\ "archivo" \notin disco.truncados
    /\ \A g \in DOMAIN disco.archivo[1] : EsMapa(disco.archivo[1][g])
    /\ Listas(disco.archivo) = {}

\* What the file persists for group g (nothing when it lacks the group).
Persistido(g) ==
    IF g \in DOMAIN disco.archivo[1] THEN disco.archivo[1][g] ELSE << >>

\* C19: when the process starts with a well-formed persistence file, each
\* configured group's host map is the union of the baked-in map and the
\* persisted map of that group, with the persisted name on a shared address;
\* every resulting host has the state {activo: True, fallos: 0,
\* ultima_alerta: 0}; a persisted group that is not configured adds nothing.
C19_CargaBienFormada ==
    [][ Reiniciar /\ BienFormado
        => /\ DOMAIN hosts' = Grupos
           /\ DOMAIN estados' = Grupos
           /\ respuesta'.texto = NADA
           /\ \A g \in Grupos :
                /\ Claves(hosts'[g]) = Claves(hosts_iniciales[g]) \cup Claves(Persistido(g))
                /\ Len(hosts'[g]) = Cardinality(Claves(hosts'[g]))
                /\ \A ip \in Claves(hosts'[g]) :
                      Valor(hosts'[g], ip) = IF ip \in Claves(Persistido(g))
                                             THEN Valor(Persistido(g), ip)
                                             ELSE Valor(hosts_iniciales[g], ip)
                /\ DOMAIN estados'[g].estado_hosts = Claves(hosts'[g])
                /\ \A ip \in Claves(hosts'[g]) :
                      EstadoSig(g, ip) = [activo |-> TRUE, fallos |-> 0, ultima_alerta |-> 0] ]_vars

\* The process started on the operator's file: the camera has the persisted
\* name and the persisted host is registered.
C19_Testigo ==
    /\ hosts = [cctv |-> << <<"2001:db8::1", "Portal">>, <<"10.0.0.1", "Srv1">> >>,
                servers |-> << >>]
    /\ disco.archivo = << hosts >>
    /\ guardados = 0
    /\ DOMAIN estados["cctv"].estado_hosts = {"2001:db8::1", "10.0.0.1"}
    /\ \A c \in Chats : conv[c] = ConvInicial

\* ---------------------------------------------------------------------
\* Properties of the prober (ping).

\* C20: ping never raises to monitoreo_host: whatever the probe attempt
\* does, the future that called it goes on to its critical section with
\* estado_actual true when the command exited with status 0 and false
\* otherwise.
C20_PingNoLanza ==
    [][ \A t \in BagToSet(hilos), ip \in TextosIP, resultado \in ResultadosPing :
          Ping(t, ip, resultado)
          => /\ ping(ip, resultado).excepcion = "ninguna"
             /\ hilos' = Cambiar(t, [t EXCEPT !.futuros[ip] =
                             [fase |-> "ping",
                              estado_actual |-> (resultado = "exit_0"),
                              current_time |-> reloj]]) ]_vars

\* ---------------------------------------------------------------------
\* enviar_mensaje as a function of its text: one task per text length
\* around the multiples of max_length, sent to one chat.
\* ---------------------------------------------------------------------

LargosTexto ==
    {n \in {k * max_length + d : k \in 0..MaxTrozos, d \in (0 - Margen)..Margen} : n >= 0}

InitTrozos ==
    /\ hosts = hosts_iniciales
    /\ estados = estados_iniciales
    /\ monitoreo_global = FALSE
    /\ alert_queue = << >>
    /\ sesiones_activas = [c \in {"chat1"} |-> Sesion("clave_admin")]
    /\ hilos = EmptyBag
    /\ reloj = RelojInicial
    /\ conv = [c \in Chats |-> ConvInicial]
    /\ user_data = [c \in Chats |-> UserDataInicial]
    /\ disco = [archivo |-> << >>, respaldo |-> << >>, truncados |-> {}]
    /\ respuesta = [chat |-> NADA, texto |-> NADA]
    /\ guardados = 0
    /\ data_lock = NADA
    /\ pendiente = SinPendiente
    /\ consumidor = ConsumidorLibre
    /\ \E n \in LargosTexto :
          tareas = SetToBag({[chat_id |-> "chat1", mensaje |-> Texto(n)]})

NextTrozos ==
    \E tarea \in BagToSet(tareas), enviados \in Envios : enviar_mensaje(tarea, enviados)

SpecTrozos == InitTrozos /\ [][NextTrozos]_vars

RECURSIVE Concatenar(_)
\* The characters of a sequence of texts, one text after the other.
Concatenar(textos) ==
    IF textos = << >> THEN << >>
    ELSE Head(textos).letras \o Concatenar(Tail(textos))

\* C23: when every send of enviar_mensaje succeeds, a text longer than
\* max_length (4096) has been transmitted as chunks of at most max_length
\* characters, all but the last of exactly max_length, whose concatenation
\* in send order is the original text; a text within the limit has been
\* sent as one message, the text itself.
C23_Troceo ==
    [][\A tarea \in BagToSet(tareas) :
          enviar_mensaje(tarea, Len(Trozos(tarea.mensaje)))
          => LET texto == tarea.mensaje
                 enviado == respuesta'.trozos
             IN  IF Len(texto.letras) > 4096
                 THEN /\ \A k \in DOMAIN enviado :
                            /\ Len(enviado[k].letras) <= 4096
                            /\ k < Len(enviado) => Len(enviado[k].letras) = 4096
                      /\ Concatenar(enviado) = texto.letras
                 ELSE enviado = << texto >>]_vars

\* A text of more than two chunks has been sent and its last chunk is short.
C23_Testigo ==
    /\ respuesta.texto = "mensaje"
    /\ Len(respuesta.trozos) > 2
    /\ Len(respuesta.trozos[Len(respuesta.trozos)].letras) < max_length
    /\ tareas = EmptyBag

\* ---------------------------------------------------------------------
\* Alerts while sessions are closed: monitoring runs over hosts that do not
\* answer, an administrator (chat1) and a plain user (chat2) are logged in,
\* and the administrator closes the sessions that are not administrators.
\* ---------------------------------------------------------------------

AccesoUsuario(c) == start(c) \/ verificar_identificador(c, "clave_user")

NextAlertas ==
    \/ MonitoreoCon({"exit_1"})
    \/ Acceso("chat1")
    \/ AccesoUsuario("chat2")
    \/ IniciarTodo("chat1")
    \/ CerrarNoAdmin("chat1")
    \/ \E entregado \in BOOLEAN : Reanudar(entregado)

SpecAlertas == Init /\ [][NextAlertas]_vars

\* The same scenario with the scheduling of the event loop: a message in
\* the queue is taken within 0.1 s, a task created is run, and an await
\* that a handler is suspended in returns.
SpecAlertasJusta ==
    /\ SpecAlertas
    /\ WF_vars(procesar_alertas)
    /\ WF_vars(\E tarea \in BagToSet(tareas), enviados \in Envios :
                  enviar_mensaje(tarea, enviados))
    /\ WF_vars(\E entregado \in BOOLEAN : Reanudar(entregado))

\* C21: every message taken off alert_queue gets one delivery task for each
\* session registered at that moment, and a delivery that fails removes only
\* its own task: the other tasks stay, the consumer stays ready for the
\* next message and the queue is untouched.
C21_EntregaATodos ==
    [][/\ procesar_alertas
          => /\ tareas' = tareas (+) SetToBag({[chat_id |-> c, mensaje |-> Head(alert_queue)] :
                                                c \in DOMAIN sesiones_activas})
             /\ consumidor' = [pc |-> "libre", mensaje |-> << >>]
       /\ \A tarea \in BagToSet(tareas) :
             enviar_mensaje(tarea, 0)
             => /\ tareas' = tareas (-) SetToBag({tarea})
                /\ consumidor' = [pc |-> "libre", mensaje |-> << >>]
                /\ alert_queue' = alert_queue]_vars

\* Every message taken so far has been fanned out: the queue is empty and
\* the consumer is between two iterations, holding no message.
ColaAtendida == alert_queue = << >> /\ consumidor = ConsumidorLibre

\* C22: a message on alert_queue is eventually taken off by procesar_alertas
\* and fanned out to the sessions of that moment; the queue does not keep it.
C22_ColaAtendida == (alert_queue # << >>) ~> ColaAtendida

\* C28: no coroutine is suspended in a send or reply to the chat transport
\* while it holds data_lock.
C28_SinRedBajoCerrojo == ~(data_lock # NADA /\ pendiente.nombre = data_lock)

\* ---------------------------------------------------------------------
\* Queries after a start: the operator puts a file in place, the process is
\* started again, and an administrator asks for the status and the lists.
\* ---------------------------------------------------------------------

Consultas(c) ==
    \/ EstadoGeneral(c)
    \/ \E activo \in BOOLEAN : ListarHosts(c, activo)

NextConsultas ==
    \/ Acceso("chat1")
    \/ Consultas("chat1")
    \/ \E contenido \in Archivos : EditarArchivo(contenido)
    \/ Reiniciar

SpecConsultas == Init /\ [][NextConsultas]_vars

\* C25: for every group, the addresses of hosts[group] are the addresses
\* that have a state in estados[group]["estado_hosts"].
C25_MismasClaves ==
    \A g \in Grupos : Claves(hosts[g]) = DOMAIN estados[g].estado_hosts

\* The hosts registered in group g whose activo flag is `activo`, as the
\* entries of hosts[g]; a host without a state has no flag.
ConBandera(g, activo) ==
    {i \in DOMAIN hosts[g] :
        /\ hosts[g][i][1] \in DOMAIN estados[g].estado_hosts
        /\ estados[g].estado_hosts[hosts[g][i][1]].activo = activo}

\* C24: "Hosts inactivos" answers with exactly the registered hosts whose
\* activo flag is false, each under its own group, "Hosts activos" with
\* exactly those whose flag is true, and "Estado general" with, per group,
\* the number of registered hosts that are alive over the number of
\* registered hosts.
C24_Consultas ==
    [][\A c \in Chats :
          /\ \A activo \in BOOLEAN :
                ListarHosts(c, activo)
                => /\ respuesta'.texto = IF activo THEN "Hosts Activos" ELSE "Hosts Inactivos"
                   /\ \A g \in Grupos :
                         /\ Len(respuesta'.grupos[g]) = Cardinality(ConBandera(g, activo))
                         /\ \A i \in ConBandera(g, activo) :
                               \E j \in DOMAIN respuesta'.grupos[g] :
                                  respuesta'.grupos[g][j] = hosts[g][i]
          /\ EstadoGeneral(c)
             => \A g \in Grupos :
                   /\ respuesta'.grupos[g].activos = Cardinality(ConBandera(g, TRUE))
                   /\ respuesta'.grupos[g].total = Len(hosts[g])]_vars

\* ultima_alerta of every host that has a state.
Marcas(e) == [g \in DOMAIN e |-> [ip \in DOMAIN e[g].estado_hosts |->
                                     e[g].estado_hosts[ip].ultima_alerta]]

C27_RondaCompleta ==
    [][\A t \in BagToSet(hilos) :
          /\ Dormir(t)
             => \A i \in DOMAIN t.hosts_copy :
                   t.futuros[t.hosts_copy[i][1]].fase = "hecho"
          /\ (\E ip \in DOMAIN t.futuros : t.futuros[ip].fase \in {"pendiente", "ping"})
             => ~Dormir(t) /\ ~Revisar(t)]_vars

\* The loop of cctv sleeps after a round in which the camera's failed probe
\* was recorded.
C27_Testigo ==
    /\ \E t \in BagToSet(hilos) : t.grupo = "cctv" /\ t.pc = "revisar"
    /\ Registrado("cctv", "2001:db8::1")
    /\ EstadoDe("cctv", "2001:db8::1").fallos > 0

\* C29: a round of monitoreo_grupo_thread starts with a copy of the group's
\* host map of that moment and with one probe for each host of the copy;
\* until the round ends its loop keeps that copy and those probes, only
\* hosts of the copy are probed, and a step that adds or removes a host
\* changes no loop's copy and no loop's set of probes.
C29_RondaSobreCopia ==
    [][/\ \A t \in BagToSet(hilos) :
             /\ (Revisar(t) /\ estados[t.grupo].activo /\ monitoreo_global)
                => \E t2 \in BagToSet(hilos') :
                      /\ hilos' = (hilos (-) SetToBag({t})) (+) SetToBag({t2})
                      /\ t2.pc = "esperar"
                      /\ t2.hosts_copy = hosts[t.grupo]
                      /\ DOMAIN t2.futuros = {hosts[t.grupo][i][1] : i \in DOMAIN hosts[t.grupo]}
             /\ \A ip \in TextosIP, resultado \in ResultadosPing :
                   Ping(t, ip, resultado)
                   => \E i \in DOMAIN t.hosts_copy : t.hosts_copy[i][1] = ip
       /\ hosts' # hosts
          => hilos' = hilos]_vars

\* The camera was removed while the cctv loop was in a round that had
\* copied it: the round probes it all the same.
C29_Testigo ==
    /\ hosts["cctv"] = << >>
    /\ \E t \in BagToSet(hilos) :
          /\ t.grupo = "cctv" /\ t.pc = "esperar"
          /\ t.hosts_copy = << <<"2001:db8::1", "Camara1">> >>
          /\ t.futuros["2001:db8::1"].fase = "ping"

\* ---------------------------------------------------------------------
\* The commands that are not to touch a host's state: the loop of cctv
\* runs over a camera that does not answer while an administrator starts
\* and stops monitoring, toggles the group, asks for the status and the
\* lists, and adds and removes another host, the server 10.0.0.1.  (The
\* loop of servers is started too; its rounds are not followed here.)
\* ---------------------------------------------------------------------

AltaOtro(c) ==
    \/ agregar_host(c)
    \/ recibir_grupo(c, "servers")
    \/ recibir_ip(c, "10.0.0.1")
    \/ recibir_nombre(c, "Srv1")
    \/ confirmar_agregar(c, "Confirmar", "ninguno")

BajaOtro(c) ==
    \/ eliminar_host(c)
    \/ recibir_grupo_eliminar(c, "servers")
    \/ recibir_ip_eliminar(c, "10.0.0.1")
    \/ confirmar_eliminar(c, "Confirmar", "ninguno")

\* The rounds of the loop of one group, with probes that fail.
RondasDe(grupo) ==
    \E t \in {h \in BagToSet(hilos) : h.grupo = grupo} :
       \/ Revisar(t)
       \/ Dormir(t)
       \/ \E ip \in TextosIP : Ping(t, ip, "exit_1")
       \/ \E ip \in TextosIP : Registrar(t, ip)

NextMarco ==
    \/ RondasDe("cctv")
    \/ Acceso("chat1")
    \/ IniciarTodo("chat1")
    \/ DetenerTodo("chat1")
    \/ ToggleGrupo("chat1", "CCTV")
    \/ Consultas("chat1")
    \/ AltaOtro("chat1")
    \/ BajaOtro("chat1")

SpecMarco == Init /\ [][NextMarco]_vars

\* The state of every host that has one.
EstadosDeHosts(e) == [g \in DOMAIN e |-> e[g].estado_hosts]

NextBajaDoble ==
    \/ \E c \in Chats : Acceso(c) \/ Baja(c)
    \/ Reanudar(TRUE)

SpecBajaDoble == Init /\ [][NextBajaDoble]_vars

\* ---------------------------------------------------------------------
\* main_alternative.py, the second entry point.  It is a program of its
\* own with module objects of the same names (hosts, estados,
\* sesiones_activas, monitoreo_global); SpecAlternativa runs it alone.  Its
\* loops are asyncio tasks, kept in hilos, and a host's state is one
\* boolean.
\* ---------------------------------------------------------------------

InitAlternativa ==
    /\ hosts = hosts_iniciales
    /\ estados = [g \in Grupos |->
                    [activo |-> TRUE,
                     estado_hosts |-> [ip \in Claves(hosts_iniciales[g]) |-> TRUE]]]
    /\ monitoreo_global = FALSE
    /\ alert_queue = << >>
    /\ sesiones_activas = << >>
    /\ hilos = EmptyBag
    /\ reloj = RelojInicial
    /\ conv = [c \in Chats |-> ConvInicial]
    /\ user_data = [c \in Chats |-> UserDataInicial]
    /\ disco = [archivo |-> << >>, respaldo |-> << >>, truncados |-> {}]
    /\ respuesta = [chat |-> NADA, texto |-> NADA]
    /\ guardados = 0
    /\ data_lock = NADA
    /\ pendiente = SinPendiente
    /\ tareas = EmptyBag
    /\ consumidor = ConsumidorLibre

\* /start of main_alternative.py
start_alternative(c) ==
    /\ conv[c].login = "END"
    /\ IF c \in DOMAIN sesiones_activas
       THEN /\ Responder(c, "Ya estas autenticado")
            /\ UNCHANGED conv
       ELSE /\ Responder(c, "Ingresa tu identificador")
            /\ conv' = [conv EXCEPT ![c].login = "LOGIN"]
    /\ UNCHANGED <<hosts, estados, monitoreo_global, alert_queue, sesiones_activas,
                   hilos, reloj, user_data, disco, guardados,
                   data_lock, pendiente, tareas, consumidor>>

\* verificar_identificador of main_alternative.py: the session holds the
\* identifier (and a timestamp, left out); there are no roles.
verificar_identificador_alternative(c, identificador) ==
    /\ conv[c].login = "LOGIN"
    /\ IF identificador \in DOMAIN Credenciales
       THEN /\ sesiones_activas' = ConClave(sesiones_activas, c,
                                            [identificador |-> identificador])
            /\ Responder(c, "Autenticacion exitosa")
            /\ conv' = [conv EXCEPT ![c].login = "END"]
       ELSE /\ Responder(c, "Identificador incorrecto")
            /\ UNCHANGED <<sesiones_activas, conv>>
    /\ UNCHANGED <<hosts, estados, monitoreo_global, alert_queue, hilos, reloj,
                   user_data, disco, guardados,
                   data_lock, pendiente, tareas, consumidor>>

\* A monitoreo_grupo task that has not run yet.
NuevaTarea(grupo, chat_id) ==
    [grupo |-> grupo, chat_id |-> chat_id, pc |-> "while", resto |-> << >>]

\* The tasks "Iniciar todo" creates: one per group whose activo is set.
TareasDeInicio(chat_id) ==
    LET activos == SelectSeq(GruposEnOrden, LAMBDA g : estados[g].activo)
    IN [i \in DOMAIN activos |-> NuevaTarea(activos[i], chat_id)]

\* "Iniciar todo" of main_alternative.py.  manejar_mensaje has no "global
\* monitoreo_global" statement, so "monitoreo_global = True" binds a local
\* name of the call: the module's monitoreo_global keeps its value.
IniciarTodo_alternative(c) ==
    /\ EnMenu(c)
    /\ c \in DOMAIN sesiones_activas
    /\ BagCardinality(hilos) + Len(TareasDeInicio(c)) <= MaxHilos
    /\ hilos' = Lanzar(TareasDeInicio(c))
    /\ Responder(c, "Monitoreo global INICIADO")
    /\ UNCHANGED <<hosts, estados, monitoreo_global, alert_queue, sesiones_activas,
                   reloj, conv, user_data, disco, guardados,
                   data_lock, pendiente, tareas, consumidor>>

\* "Detener todo" of main_alternative.py: the assignment binds the local
\* name too.
DetenerTodo_alternative(c) ==
    /\ EnMenu(c)
    /\ c \in DOMAIN sesiones_activas
    /\ Responder(c, "Monitoreo global DETENIDO")
    /\ UNCHANGED <<hosts, estados, monitoreo_global, alert_queue, sesiones_activas,
                   hilos, reloj, conv, user_data, disco, guardados,
                   data_lock, pendiente, tareas, consumidor>>

\* A group button of main_alternative.py.  The group name keeps no blank to
\* strip; estados[grupo] raises KeyError for "servidores".
ToggleGrupo_alternative(c, boton) ==
    /\ EnMenu(c)
    /\ c \in DOMAIN sesiones_activas
    /\ LET grupo == normalizar_grupo(boton) IN
       IF grupo \notin DOMAIN estados
       THEN /\ Responder(c, "KeyError")
            /\ UNCHANGED estados
       ELSE /\ estados' = [estados EXCEPT ![grupo].activo = ~@]
            /\ Responder(c, IF ~estados[grupo].activo THEN "ACTIVADO" ELSE "DESACTIVADO")
    /\ UNCHANGED <<hosts, monitoreo_global, alert_queue, sesiones_activas, hilos,
                   reloj, conv, user_data, disco, guardados,
                   data_lock, pendiente, tareas, consumidor>>

\* One step of a monitoreo_grupo task t.  At "while" it tests
\* estados[grupo]["activo"] and the module's monitoreo_global: the task
\* returns when the test fails and starts the for loop over the group's
\* hosts otherwise.  At "for" it tests the two flags again (break), probes
\* the next host (estado_actual) and, on a change of state, stores it and
\* sends the alert to the chat that started the task; after the last host
\* it sleeps and is back at "while".
monitoreo_grupo(t, estado_actual) ==
    /\ t \in BagToSet(hilos)
    /\ IF t.pc = "while"
       THEN /\ IF estados[t.grupo].activo /\ monitoreo_global
               THEN hilos' = Cambiar(t, [t EXCEPT !.pc = "for", !.resto = hosts[t.grupo]])
               ELSE hilos' = hilos (-) SetToBag({t})
            /\ SinRespuesta
            /\ UNCHANGED estados
       ELSE IF t.resto = << >> \/ ~estados[t.grupo].activo \/ ~monitoreo_global
       THEN /\ hilos' = Cambiar(t, [t EXCEPT !.pc = "while", !.resto = << >>])
            /\ SinRespuesta
            /\ UNCHANGED estados
       ELSE LET ip == Head(t.resto)[1]
                estado_anterior == estados[t.grupo].estado_hosts[ip]
            IN /\ hilos' = Cambiar(t, [t EXCEPT !.resto = Tail(@)])
               /\ IF estado_actual # estado_anterior
                  THEN /\ estados' = [estados EXCEPT ![t.grupo].estado_hosts[ip] = estado_actual]
                       /\ Responder(t.chat_id, IF estado_actual THEN "ha vuelto a responder"
                                                                ELSE "ALERTA")
                  ELSE /\ SinRespuesta
                       /\ UNCHANGED estados
    /\ UNCHANGED <<hosts, monitoreo_global, alert_queue, sesiones_activas, reloj,
                   conv, user_data, disco, guardados,
                   data_lock, pendiente, tareas, consumidor>>

NextAlternativa ==
    \/ \E c \in Chats :
          \/ start_alternative(c)
          \/ \E identificador \in Identificadores :
                verificar_identificador_alternative(c, identificador)
          \/ IniciarTodo_alternative(c)
          \/ DetenerTodo_alternative(c)
          \/ \E boton \in {"CCTV", "Servidores"} : ToggleGrupo_alternative(c, boton)
    \/ \E t \in BagToSet(hilos), estado_actual \in BOOLEAN : monitoreo_grupo(t, estado_actual)

SpecAlternativa == InitAlternativa /\ [][NextAlternativa]_vars

\* C31: in both entry points "Iniciar todo" leaves the module's
\* monitoreo_global, the flag the loops read, true and "Detener todo" leaves
\* it false; a loop of an enabled group that tests the flags after a start
\* goes on to a probe round.
C31_BanderaCompartida ==
    [][/\ \A c \in Chats :
             /\ (IniciarTodo(c) \/ IniciarTodo_alternative(c)) => monitoreo_global'
             /\ (DetenerTodo(c) \/ DetenerTodo_alternative(c)) => ~monitoreo_global'
       /\ \A t \in BagToSet(hilos), estado_actual \in BOOLEAN :
             (/\ t.pc = "while"
              /\ estados[t.grupo].activo
              /\ respuesta.texto = "Monitoreo global INICIADO"
              /\ monitoreo_grupo(t, estado_actual))
             => \E t2 \in BagToSet(hilos') : t2.grupo = t.grupo /\ t2.pc = "for"]_vars

\* C32: while monitoreo_global is true and a group is enabled, a loop of
\* the group is running (at its check or waiting for its probes), whatever
\* hosts were added or removed meanwhile: a removal with the host's probe
\* in flight does not end the loop.
C32_BucleVivo ==
    \A g \in Grupos : (monitoreo_global /\ estados[g].activo) => HilosVivos(g) >= 1

\* C33: the event loop's thread never blocks on data_lock (in
\* procesar_alertas or in a handler) while the lock is held by a coroutine
\* of the same loop that is suspended at an await.
C33_SinBloqueo ==
    ~(/\ consumidor.pc = "bloqueado"
      /\ data_lock # NADA
      /\ pendiente.nombre = data_lock)

\* C34: a probe's result is recorded only against the registration that was
\* probed.  A critical section of monitoreo_host that changes a host's
\* state or enqueues an alert belongs to a probe whose round copied the
\* host's present registration: after a removal and a new add of the same
\* address (under another name) the result of the old probe changes
\* nothing.
C34_ResultadoDeSuRegistro ==
    [][\A t \in BagToSet(hilos) : \A ip \in DOMAIN t.futuros :
          (/\ Registrar(t, ip)
           /\ \/ estados' # estados
              \/ alert_queue' # alert_queue)
          => /\ ip \in Claves(hosts[t.grupo])
             /\ Valor(t.hosts_copy, ip) = Valor(hosts[t.grupo], ip)]_vars

\* The alert siguiente may follow the alert anterior of the same host: a
\* DOWN alert ("ALERTA") follows a RECOVERED one, anything else follows a
\* DOWN or PERSISTENT-DOWN one.
BienSeguidas(anterior, siguiente) ==
    IF siguiente.tipo = "ALERTA"
    THEN anterior.tipo = "RECUPERADO"
    ELSE anterior.tipo \in {"ALERTA", "ALERTA PERSISTENTE"}

MismoHost(a, b) == a.grupo = b.grupo /\ a.ip = b.ip

\* C35: the alerts enqueued for a host that stays registered are
\* well-formed: DOWN and RECOVERED alternate and a PERSISTENT-DOWN alert
\* follows a DOWN with no RECOVERED in between.  The message being sent
\* (tareas) was enqueued before the ones on alert_queue, so every two
\* alerts of one host that are next to each other there are well ordered.
C35_AlertasBienFormadas ==
    /\ \A i \in 1..(Len(alert_queue) - 1) :
          MismoHost(alert_queue[i], alert_queue[i + 1])
          => BienSeguidas(alert_queue[i], alert_queue[i + 1])
    /\ \A tarea \in BagToSet(tareas) :
          (alert_queue # << >> /\ MismoHost(tarea.mensaje, Head(alert_queue)))
          => BienSeguidas(tarea.mensaje, Head(alert_queue))

\* C36: in every state a registered host whose activo flag is false has a
\* failure counter of at least MAX_FALLOS.
C36_InactivoConFallos ==
    \A g \in Grupos : \A ip \in DOMAIN estados[g].estado_hosts :
       ~estados[g].estado_hosts[ip].activo
       => estados[g].estado_hosts[ip].fallos >= MAX_FALLOS

\* A host that is down failed another probe after its DOWN alert.
C36_Testigo ==
    \E g \in Grupos : \E ip \in DOMAIN estados[g].estado_hosts :
       /\ ~estados[g].estado_hosts[ip].activo
       /\ estados[g].estado_hosts[ip].fallos > MAX_FALLOS

\* Two sessions add the server and remove the camera, each with its own
\* conversation; a save may fail at any step.  The sessions are open from
\* the start.
NextSesiones ==
    \/ \E c \in Chats : AltaServidor(c) \/ BajaCamara(c)
    \/ Reanudar(TRUE)

\* Two administrators have logged in.
InitSesiones == InitCon([c \in Chats |-> Sesion("clave_admin")])

SpecSesiones == InitSesiones /\ [][NextSesiones]_vars

\* A confirmation step of chat c whose guardar_hosts raised.
GuardadoFallido(c) == Confirma(c) /\ respuesta'.texto = "Error interno"

\* C37: when the last save of the completed add and remove commands
\* succeeded, the snapshot file holds the in-memory hosts map, whatever the
\* sessions interleave: a command that completes with a successful save
\* leaves the file equal to hosts, and from then on every step keeps them
\* equal except a command whose save fails.
C37_ArchivoAlDia ==
    [][ /\ \A c \in Chats :
              (Confirma(c) /\ guardados' # guardados /\ ~GuardadoFallido(c))
              => Guardado'
        /\ (Guardado /\ ~\E c \in Chats : GuardadoFallido(c)) => Guardado' ]_vars

\* Two commands have completed, the last one by chat2 with a successful
\* save, and no conversation is in progress.
C37_Testigo ==
    /\ Guardado
    /\ guardados >= 2
    /\ DOMAIN sesiones_activas = Chats
    /\ \A c \in Chats : conv[c].agregar = "END" /\ conv[c].eliminar = "END"
    /\ hosts = [cctv |-> << >>, servers |-> << <<"10.0.0.1", "Srv1">> >>]
    /\ respuesta = [chat |-> "chat2", texto |-> "Host agregado"]

\* An administrator closes the sessions of the other users while a user is
\* in the add-host or remove-host conversation.
NextCierre ==
    \/ Acceso("chat1")
    \/ AccesoUsuario("chat2")
    \/ CerrarNoAdmin("chat1")
    \/ \E entregado \in BOOLEAN : Reanudar(entregado)
    \/ AltaOtro("chat2")
    \/ BajaOtro("chat2")

SpecCierre == Init /\ [][NextCierre]_vars

\* C38: a confirmation changes the registry only for a chat that has a
\* session in sesiones_activas when the change is made; a chat whose session
\* was closed during its conversation cannot complete it.
C38_MutacionConSesion ==
    [][\A c \in Chats :
          (Confirma(c) /\ hosts' # hosts) => c \in DOMAIN sesiones_activas]_vars

====
